---- MODULE Spec2Model ----
(***************************************************************************)
(* A model of the SDR automation bot: the inbound pipeline                 *)
(* (sdr/pipeline.py), the local idempotency ledger (sdr/db.py), the        *)
(* Airtable CRM tables it writes (sdr/crm/airtable.py), the contact        *)
(* deduplicator (sdr/crm/dedup.py) and the outbound sender loop            *)
(* (sdr/outbound.py).                                                      *)
(*                                                                         *)
(* Conventions.  Airtable record ids are the 1-based position of the row   *)
(* in its table.  Optional strings that are None or "" in Python are ""    *)
(* here (Python tests them with `not x`).  Names and companies are         *)
(* sequences of characters because the code lower-cases and searches them. *)
(* Dates are day numbers: every date column of the CRM is of type date,    *)
(* and 0 stands for an empty date.                                         *)
(*                                                                         *)
(* A handler is written once, as a step function over its local frame and  *)
(* the shared tables (PMStep, OBStep).  The sequential specifications run  *)
(* a handler to completion in one action; the concurrent specifications   *)
(* take one step of one invocation at a time, each step containing one     *)
(* access to a shared table.                                               *)
(*                                                                         *)
(* Fault scope.  A call of a collaborator (CRM, classifier, drafter,       *)
(* enricher, sender) or a ledger write inside the try block may raise;     *)
(* each invocation has at most one such fault, named by the step at which  *)
(* it happens.  A raising write is taken not to have been applied.  The    *)
(* ledger read is_message_processed and the failure-path write             *)
(* mark_message_failed are taken to succeed.                               *)
(***************************************************************************)
EXTENDS Integers, Sequences, FiniteSets, TLC

VARIABLES
    contacts,            \* Airtable Contacts table: sequence of contact rows
    messages,            \* Airtable Messages table: sequence of message rows
    audit_log,           \* Airtable Audit Log table: sequence of entries
    processed_messages,  \* SQLite processed_messages: set of ledger rows
    local_audit,         \* SQLite local_audit: sequence of entries
    sends,               \* history of sender.send invocations
    today,               \* the clock: the current day
    learning_log,        \* SQLite learning_log: sequence of rule rows
    circuit_breaker,     \* the CircuitBreaker of main(): its two dicts
    monotonic,           \* time.monotonic(), in ticks
    ncalls,              \* number of handler invocations started so far
    last,                \* history: the last completed invocation
    batch,               \* process_batch in progress: its list, index, stats
    frames               \* concurrent specifications: each invocation's frame

vars == << contacts, messages, audit_log, processed_messages, local_audit,
           sends, today, learning_log,
                    circuit_breaker, monotonic, ncalls, last, batch, frames >>

-----------------------------------------------------------------------------
(* Bounds of the model.                                                    *)

MaxCalls == 2
MaxBatch == 2
MaxDeepCalls == 3

-----------------------------------------------------------------------------
(* Values.                                                                 *)

NoId == 0

Gmail == "Gmail"
LinkedIn == "LinkedIn"
Both == "Both"

Inbound == "Inbound"
Outbound == "Outbound"

\* Characters of names and companies, and str.lower() on them.
LowerChar(c) ==
    CASE c = "A" -> "a"
      [] c = "B" -> "b"
      [] c = "U" -> "u"
      [] OTHER -> c

Lower(s) == [i \in 1..Len(s) |-> LowerChar(s[i])]

\* Airtable FIND(needle, hay) > 0: needle occurs in hay as a substring.
Contains(hay, needle) ==
    \E i \in 1..(Len(hay) + 1) :
        /\ i + Len(needle) - 1 <= Len(hay)
        /\ SubSeq(hay, i, i + Len(needle) - 1) = needle

Unknown == << "U", "n" >>
NameAnn == << "A", "n" >>
NameAnnLower == << "a", "n" >>
NameBo == << "B", "o" >>
NameAnna == << "A", "n", "a" >>
CompanyAb == << "a", "b" >>
CompanyAbUpper == << "A", "b" >>
CompanyBo == << "b", "o" >>
NoText == << >>

\* An InboundMessage as the pollers normalise it.
InboundMessage(source, id, name, email, url, company, title, day, account) ==
    [ source |-> source, source_message_id |-> id, sender_name |-> name,
      sender_email |-> email, sender_linkedin_url |-> url,
      sender_company |-> company, sender_title |-> title,
      received_at |-> day, account_id |-> account ]

\* The inbound messages the pollers deliver in this model.  M1 and M2 share
\* a source_message_id across channels; M3 is a second message of M1's
\* sender.
M1 == InboundMessage(Gmail, "s1", NameAnn, "ann@x", "", NoText, "", 1, "")
M2 == InboundMessage(LinkedIn, "s1", NameBo, "", "li/bo", NoText, "CTO", 1, "acct")
M3 == InboundMessage(Gmail, "s2", NameAnnLower, "ann@x", "li/ann", NoText, "", 2, "")

Msgs == { M1, M2, M3 }

\* LeadClassification as the classifier adapter returns it.
Classification(category, stage, reply) ==
    [ category |-> category, conversation_stage |-> stage,
      should_reply |-> reply ]

Classifications ==
    { Classification("Hot", "Engaging", TRUE),
      Classification("Not a Lead", "New", FALSE) }

\* Texts of drafts are sequences of characters (the outbound loop compares
\* them character by character): what the drafter writes, and a version a
\* reviewer edited.
DraftText == << "h", "i" >>
EditedText == << "h", "o", "i" >>


-----------------------------------------------------------------------------
(* Generic helpers.                                                        *)

EmptyMap == [x \in {} |-> x]

\* Optional dictionary entry: {key: value} when cond, else {}.
Entry(cond, map) == IF cond THEN map ELSE EmptyMap

\* AirtableCRM._all: the rows of the table matching the formula, in table
\* order.  hits is the set of indices of the matching rows.
SelectIdx(seq, hits) ==
    LET F[i \in 0..Len(seq)] ==
            IF i = 0 THEN << >>
            ELSE IF i \in hits THEN Append(F[i - 1], i) ELSE F[i - 1]
    IN F[Len(seq)]

\* AirtableCRM._first: the first row matching the formula, NoId if none.
FirstIdx(seq, hits) ==
    IF hits = {} THEN NoId ELSE SelectIdx(seq, hits)[1]

-----------------------------------------------------------------------------
(* Airtable CRM (sdr/crm/airtable.py).  Each operator takes the table and  *)
(* returns the new table or the value read.                                *)

\* ContactRecord with the defaults of the pydantic model.
ContactRecord(name, email, url, company, title, channel, day) ==
    [ name |-> name, email |-> email, linkedin_url |-> url,
      company |-> company, title |-> title, source_channel |-> channel,
      lead_category |-> "Cold", conversation_stage |-> "New",
      first_contact |-> day, last_contact |-> day,
      interaction_count |-> 1, enriched_data |-> "",
      follow_up_count |-> 0, follow_up_channel |-> "",
      next_follow_up_date |-> 0, follow_up_status |-> "",
      last_outbound_at |-> 0 ]

\* MessageRecord with the defaults of the pydantic model.
MessageRecord(contact_id, source, direction, draft, status, category, stage, day, account, smid) ==
    [ contact_id |-> contact_id, source |-> source, direction |-> direction,
      draft_reply |-> draft, status |-> status, classification |-> category,
      conversation_stage |-> stage, ai_draft_version |-> draft,
      edit_distance |-> -1, received_at |-> day, sent_at |-> 0,
      send_error |-> "", account_id |-> account,
      source_message_id |-> smid, follow_up_number |-> 0 ]

AuditLogEntry(action, contact_id, message_id) ==
    [ action |-> action, contact_id |-> contact_id, message_id |-> message_id ]

find_contact_by_email(cs, email) ==
    FirstIdx(cs, { i \in DOMAIN cs : cs[i].email = email })

find_contact_by_linkedin_url(cs, url) ==
    FirstIdx(cs, { i \in DOMAIN cs : cs[i].linkedin_url = url })

\* FIND(LOWER(name), LOWER({Name})) > 0
find_contacts_by_name(cs, name) ==
    SelectIdx(cs, { i \in DOMAIN cs : Contains(Lower(cs[i].name), Lower(name)) })

\* update_contact(record_id, fields): fields is a map over column names.
update_contact(cs, id, fields) == [cs EXCEPT ![id] = fields @@ @]

\* upsert_contact for a record without id: look up by email, then by
\* LinkedIn URL; update the hit with the record's fields, else create.
\* Returns the table and the id of the row written.
upsert_contact(cs, c) ==
    LET byEmail == IF c.email # "" THEN find_contact_by_email(cs, c.email)
                   ELSE NoId
        existing == IF byEmail = NoId /\ c.linkedin_url # ""
                    THEN find_contact_by_linkedin_url(cs, c.linkedin_url)
                    ELSE byEmail
        \* _contact_to_fields: always-written columns plus the non-empty ones
        fields == [ name |-> c.name, source_channel |-> c.source_channel,
                    lead_category |-> c.lead_category,
                    conversation_stage |-> c.conversation_stage,
                    interaction_count |-> c.interaction_count,
                    enriched_data |-> c.enriched_data ]
                  @@ Entry(c.email # "", [email |-> c.email])
                  @@ Entry(c.linkedin_url # "", [linkedin_url |-> c.linkedin_url])
                  @@ Entry(c.company # NoText, [company |-> c.company])
                  @@ Entry(c.title # "", [title |-> c.title])
                  @@ Entry(c.first_contact # 0, [first_contact |-> c.first_contact])
                  @@ Entry(c.last_contact # 0, [last_contact |-> c.last_contact])
    IN IF existing # NoId
       THEN [ contacts |-> update_contact(cs, existing, fields), id |-> existing ]
       ELSE [ contacts |-> Append(cs, c), id |-> Len(cs) + 1 ]

\* find_message_by_source_id: the formula compares Source Message ID only.
find_message_by_source_id(ms, smid) ==
    FirstIdx(ms, { i \in DOMAIN ms : ms[i].source_message_id = smid })

\* create_message's dedup guard: the lookup is made for inbound records
\* that carry a source message id.
create_message_lookup(ms, rec) ==
    IF rec.source_message_id # "" /\ rec.direction = Inbound
    THEN find_message_by_source_id(ms, rec.source_message_id)
    ELSE NoId

\* create_message: the existing row if the lookup hit, else a new row.
create_message(ms, rec) ==
    LET existing == create_message_lookup(ms, rec)
    IN IF existing # NoId
       THEN [ messages |-> ms, id |-> existing ]
       ELSE [ messages |-> Append(ms, rec), id |-> Len(ms) + 1 ]

update_message(ms, id, fields) == [ms EXCEPT ![id] = fields @@ @]

\* get_approved_messages: ids of the rows with Status = "Approved".
get_approved_messages(ms) ==
    SelectIdx(ms, { i \in DOMAIN ms : ms[i].status = "Approved" })

log_audit(al, entry) == Append(al, entry)

-----------------------------------------------------------------------------
(* Local SQLite ledger (sdr/db.py).                                        *)

LedgerRows(pm, source, smid) ==
    { r \in pm : r.source = source /\ r.source_message_id = smid }

\* SELECT 1 FROM processed_messages WHERE source = ? AND source_message_id = ?
is_message_processed(pm, source, smid) == LedgerRows(pm, source, smid) # {}

\* Mutant of mark_message_processed: the ids supplied replace the stored
\* ones, also when none is supplied.
mark_message_processed_overwrite(pm, source, smid, status, message_id, contact_id) ==
    LET old == LedgerRows(pm, source, smid)
    IN (pm \ old)
       \cup { [ source |-> source, source_message_id |-> smid,
                status |-> status,
                attempts |-> IF old = {} THEN 1
                             ELSE (CHOOSE r \in old : TRUE).attempts,
                error |-> IF old = {} THEN ""
                          ELSE (CHOOSE r \in old : TRUE).error,
                airtable_message_id |-> message_id,
                airtable_contact_id |-> contact_id ] }

\* INSERT ... ON CONFLICT(source, source_message_id) DO UPDATE SET status,
\* airtable ids (COALESCE keeps the stored id when none is supplied).
mark_message_processed(pm, source, smid, status, message_id, contact_id) ==
    LET old == LedgerRows(pm, source, smid)
        Upd(r) == [ r EXCEPT
                      !.status = status,
                      !.airtable_message_id =
                          IF message_id # NoId THEN message_id ELSE @,
                      !.airtable_contact_id =
                          IF contact_id # NoId THEN contact_id ELSE @ ]
    IN IF old = {}
       THEN pm \cup { [ source |-> source, source_message_id |-> smid,
                        status |-> status, attempts |-> 1, error |-> "",
                        airtable_message_id |-> message_id,
                        airtable_contact_id |-> contact_id ] }
       ELSE (pm \ old) \cup { Upd(r) : r \in old }

\* INSERT ... VALUES (?, ?, 'failed', ?) ON CONFLICT DO UPDATE SET
\* status = 'failed', error, attempts = attempts + 1.
mark_message_failed(pm, source, smid, error) ==
    LET old == LedgerRows(pm, source, smid)
        Upd(r) == [ r EXCEPT !.status = "failed", !.error = error,
                             !.attempts = @ + 1 ]
    IN IF old = {}
       THEN pm \cup { [ source |-> source, source_message_id |-> smid,
                        status |-> "failed", attempts |-> 1, error |-> error,
                        airtable_message_id |-> NoId,
                        airtable_contact_id |-> NoId ] }
       ELSE (pm \ old) \cup { Upd(r) : r \in old }

log_local_audit(la, action, message_id, contact_id) ==
    Append(la, [ action |-> action, message_id |-> message_id,
                 contact_id |-> contact_id ])

\* A row of learning_log as INSERT INTO learning_log (rule_text,
\* confidence) makes it; its id is its position.  Confidences are in
\* hundredths, created_at is datetime('now').
LearnedRule(rule_text, confidence, now) ==
    [ rule_text |-> rule_text, confidence |-> confidence, active |-> TRUE,
      created_at |-> now, deactivated_at |-> 0 ]

\* Mutant of get_active_learned_rules: newest first.
get_active_learned_rules_desc(ll, ties) ==
    LET act == { i \in DOMAIN ll : ll[i].active }
        Pos(k) == 1 + Cardinality({ j \in act :
                         \/ ll[j].created_at > ll[k].created_at
                         \/ ll[j].created_at = ll[k].created_at /\ j > k })
    IN [ p \in 1..Cardinality(act) |-> CHOOSE k \in act : Pos(k) = p ]

\* get_active_learned_rules: ids of the rows WHERE active = 1 ORDER BY
\* created_at ASC.  SQL leaves the order of rows of equal created_at open:
\* ties says whether they come by ascending id ("rowid") or descending
\* ("reverse").
get_active_learned_rules(ll, ties) ==
    LET act == { i \in DOMAIN ll : ll[i].active }
        Pos(k) == 1 + Cardinality({ j \in act :
                         \/ ll[j].created_at < ll[k].created_at
                         \/ /\ ll[j].created_at = ll[k].created_at
                            /\ IF ties = "rowid" THEN j < k ELSE j > k })
    IN [ p \in 1..Cardinality(act) |-> CHOOSE k \in act : Pos(k) = p ]

insert_learned_rule(ll, rule_text, confidence, now) ==
    Append(ll, LearnedRule(rule_text, confidence, now))

\* UPDATE learning_log SET active = 0, deactivated_at = datetime('now')
\* WHERE id = ?
deactivate_learned_rule(ll, id, now) ==
    [ll EXCEPT ![id].active = FALSE, ![id].deactivated_at = now]

-----------------------------------------------------------------------------
(* CircuitBreaker (sdr/main.py).  cb is the object's state: its two dicts, *)
(* keyed by source name; cfg is the ErrorHandlingConfig it was built from. *)

NewCircuitBreaker == [ _failures |-> EmptyMap, _open_until |-> EmptyMap ]

\* dict.get(key, default)
DictGet(map, key, default) == IF key \in DOMAIN map THEN map[key] ELSE default

\* dict[key] = value
DictSet(map, key, value) == (key :> value) @@ map

\* dict.pop(key, None)
DictPop(map, key) == [ k \in (DOMAIN map) \ { key } |-> map[k] ]

\* Mutant of record_failure: the breaker opens on every failure.
record_failure_always_opens(cb, cfg, source, now) ==
    [ _failures |-> DictSet(cb._failures, source,
                            DictGet(cb._failures, source, 0) + 1),
      _open_until |-> DictSet(cb._open_until, source,
                        now + cfg.circuit_breaker_cooldown_seconds) ]

record_failure(cb, cfg, source, now) ==
    LET n == DictGet(cb._failures, source, 0) + 1
    IN [ _failures |-> DictSet(cb._failures, source, n),
         _open_until |->
             IF n >= cfg.circuit_breaker_threshold
             THEN DictSet(cb._open_until, source,
                          now + cfg.circuit_breaker_cooldown_seconds)
             ELSE cb._open_until ]

record_success(cb, source) ==
    [ _failures |-> DictSet(cb._failures, source, 0),
      _open_until |-> DictPop(cb._open_until, source) ]

\* is_open(source): the answer, and the state it leaves (an expired
\* cooldown is cleared by the call).
is_open(cb, source, now) ==
    IF source \notin DOMAIN cb._open_until
    THEN [ cb |-> cb, open |-> FALSE ]
    ELSE IF now >= cb._open_until[source]
    THEN [ cb |-> [ _failures |-> DictSet(cb._failures, source, 0),
                    _open_until |-> DictPop(cb._open_until, source) ],
           open |-> FALSE ]
    ELSE [ cb |-> cb, open |-> TRUE ]

-----------------------------------------------------------------------------
(* Contact deduplicator (sdr/crm/dedup.py).                                *)

\* Mutant of find_existing_contact: the profile URL is looked up before the
\* email.
find_existing_contact_url_first(cs, m) ==
    LET byEmail == IF m.sender_email # ""
                   THEN find_contact_by_email(cs, m.sender_email) ELSE NoId
        byUrl == IF m.sender_linkedin_url # ""
                 THEN find_contact_by_linkedin_url(cs, m.sender_linkedin_url)
                 ELSE NoId
        candidates == find_contacts_by_name(cs, m.sender_name)
    IN IF byUrl # NoId THEN byUrl
       ELSE IF byEmail # NoId THEN byEmail
       ELSE IF m.sender_name # NoText /\ m.sender_name # Unknown
               /\ Len(candidates) = 1
       THEN candidates[1] ELSE NoId

\* Mutant of find_existing_contact: the name "Unknown" is looked up like
\* any other name.
find_existing_contact_any_name(cs, m) ==
    LET byEmail == IF m.sender_email # ""
                   THEN find_contact_by_email(cs, m.sender_email) ELSE NoId
        byUrl == IF m.sender_linkedin_url # ""
                 THEN find_contact_by_linkedin_url(cs, m.sender_linkedin_url)
                 ELSE NoId
        candidates == find_contacts_by_name(cs, m.sender_name)
    IN IF byEmail # NoId THEN byEmail
       ELSE IF byUrl # NoId THEN byUrl
       ELSE IF m.sender_name # NoText /\ Len(candidates) = 1
       THEN candidates[1] ELSE NoId

\* find_existing_contact: email, then LinkedIn URL, then name (skipped for
\* "Unknown"), a unique name hit or the first candidate of the same company.
find_existing_contact(cs, m) ==
    LET byEmail == IF m.sender_email # ""
                   THEN find_contact_by_email(cs, m.sender_email) ELSE NoId
        byUrl == IF m.sender_linkedin_url # ""
                 THEN find_contact_by_linkedin_url(cs, m.sender_linkedin_url)
                 ELSE NoId
        candidates == find_contacts_by_name(cs, m.sender_name)
        SameCompany(i) == /\ cs[candidates[i]].company # NoText
                          /\ Lower(cs[candidates[i]].company)
                                = Lower(m.sender_company)
        sameCo == { i \in 1..Len(candidates) : SameCompany(i) }
        byName ==
            IF m.sender_name # NoText /\ m.sender_name # Unknown
            THEN IF Len(candidates) = 1 THEN candidates[1]
                 ELSE IF Len(candidates) > 1 /\ m.sender_company # NoText
                         /\ sameCo # {}
                      THEN candidates[CHOOSE i \in sameCo :
                                         \A j \in sameCo : i <= j]
                      ELSE NoId
            ELSE NoId
    IN IF byEmail # NoId THEN byEmail
       ELSE IF byUrl # NoId THEN byUrl
       ELSE byName

\* The CRM lookups find_existing_contact makes, in order: each is made only
\* when its field is present and no earlier lookup had a hit.
find_existing_lookups(cs, m) ==
    LET byEmail == IF m.sender_email # ""
                   THEN find_contact_by_email(cs, m.sender_email) ELSE NoId
        byUrl == IF m.sender_linkedin_url # ""
                 THEN find_contact_by_linkedin_url(cs, m.sender_linkedin_url)
                 ELSE NoId
    IN (IF m.sender_email # "" THEN << "email" >> ELSE << >>)
       \o (IF byEmail = NoId /\ m.sender_linkedin_url # ""
           THEN << "linkedin_url" >> ELSE << >>)
       \o (IF byEmail = NoId /\ byUrl = NoId
              /\ m.sender_name # NoText /\ m.sender_name # Unknown
           THEN << "name" >> ELSE << >>)

\* Mutant of should_update_source_channel: every single-channel contact is
\* promoted, whatever the channel of the message.
should_update_source_channel_any(existing, m) ==
    existing.source_channel # Both

should_update_source_channel(existing, m) ==
    IF existing.source_channel = Both THEN FALSE
    ELSE IF existing.source_channel = Gmail /\ m.source = LinkedIn THEN TRUE
    ELSE IF existing.source_channel = LinkedIn /\ m.source = Gmail THEN TRUE
    ELSE FALSE

\* Mutant of merge_contact_data: the email of the message is taken whenever
\* the message has one.
merge_contact_data_overwrite(existing, m) ==
    Entry(m.sender_email # "", [email |-> m.sender_email])
    @@ Entry(existing.linkedin_url = "" /\ m.sender_linkedin_url # "",
             [linkedin_url |-> m.sender_linkedin_url])
    @@ Entry(existing.company = NoText /\ m.sender_company # NoText,
             [company |-> m.sender_company])
    @@ Entry(existing.title = "" /\ m.sender_title # "",
             [title |-> m.sender_title])
    @@ Entry(should_update_source_channel(existing, m),
             [source_channel |-> Both])
    @@ Entry(m.received_at # 0, [last_contact |-> m.received_at])
    @@ [interaction_count |-> existing.interaction_count + 1]

\* merge_contact_data: the update map for an existing contact.
merge_contact_data(existing, m) ==
    Entry(existing.email = "" /\ m.sender_email # "",
          [email |-> m.sender_email])
    @@ Entry(existing.linkedin_url = "" /\ m.sender_linkedin_url # "",
             [linkedin_url |-> m.sender_linkedin_url])
    @@ Entry(existing.company = NoText /\ m.sender_company # NoText,
             [company |-> m.sender_company])
    @@ Entry(existing.title = "" /\ m.sender_title # "",
             [title |-> m.sender_title])
    @@ Entry(should_update_source_channel(existing, m),
             [source_channel |-> Both])
    @@ Entry(m.received_at # 0, [last_contact |-> m.received_at])
    @@ [interaction_count |-> existing.interaction_count + 1]

-----------------------------------------------------------------------------
(* Inbound pipeline (sdr/pipeline.py): InboundPipeline.process_message as  *)
(* a step function.  w is the shared state (CRM tables, ledger), f the     *)
(* local frame of one invocation.                                          *)

World ==
    [ contacts |-> contacts, messages |-> messages, audit_log |-> audit_log,
      processed_messages |-> processed_messages,
      local_audit |-> local_audit, sends |-> sends, today |-> today,
      learning_log |-> learning_log, circuit_breaker |-> circuit_breaker,
      monotonic |-> monotonic ]

\* What the enrichment adapter returns when it has data.
EnrichData == [ title |-> "VP", company |-> << "a", "b" >>,
                linkedin_url |-> "li/enr", email |-> "enr@x" ]

\* Every step of process_message inside the try block that calls a
\* collaborator or writes the ledger, and so may raise.
PMTrySteps ==
    { "find_existing", "merge_update", "merge_audit", "upsert_contact",
      "create_audit", "enrich_update", "enrich_audit", "classify", "draft",
      "create_message_lookup", "create_message", "update_contact",
      "mark_processed", "audit_received", "audit_classified", "audit_draft",
      "local_audit" }

\* The steps at which the wide specification (Spec) makes a call raise:
\* the two AI adapters, the CRM writes from the Message row on, and the
\* ledger write.  SpecFaults covers every step of PMTrySteps.
PMFaults ==
    { "classify", "draft", "create_message", "update_contact",
      "mark_processed", "audit_received" }

\* One invocation's inputs: what the classifier returns, what the enricher
\* does ("none": no data, "data": EnrichData, "raise"), and the step that
\* raises ("none": no fault).  At most one collaborator call of an
\* invocation raises; the write-back steps of enrichment are reached only
\* when the enricher returned data.
PMScenarios(faults) ==
    { [ enrich |-> e, fault |-> "none" ] : e \in { "none", "data", "raise" } }
    \cup { [ enrich |-> "none", fault |-> x ] :
             x \in faults \ { "enrich_update", "enrich_audit" } }
    \cup { [ enrich |-> "data", fault |-> x ] :
             x \in faults \cap { "enrich_update", "enrich_audit" } }

PMPlansOver(faults) ==
    { [ classification |-> c, enrich |-> s.enrich, fault |-> s.fault ] :
        c \in Classifications, s \in PMScenarios(faults) }

PMPlans == PMPlansOver(PMFaults)

\* The frame at entry of process_message(message).
PMFrame(message, plan) ==
    [ pc |-> "idempotency", message |-> message, plan |-> plan,
      contact_id |-> NoId, contact |-> EmptyMap, preexisting |-> FALSE,
      enrichment_data |-> "", draft_reply |-> NoText,
      ai_draft_version |-> NoText,
      status |-> "New", msg_id |-> NoId, error |-> "", raised |-> "",
      result |-> NoId, outcome |-> "running",
      classified_with |-> "none", drafter_called |-> FALSE,
      lookups |-> << >> ]

\* An exception inside the try block: control passes to the except clause.
PMRaise(w, f) ==
    [ w |-> w,
      f |-> [f EXCEPT !.pc = "handler", !.error = f.pc, !.raised = f.pc] ]

PMGoto(w, f, pc) == [ w |-> w, f |-> [f EXCEPT !.pc = pc] ]

\* An exception inside _enrich_contact: logged, and "" is returned.
PMSwallow(w, f) ==
    [ w |-> w, f |-> [f EXCEPT !.pc = "classify", !.raised = f.pc] ]

\* The MessageRecord process_message builds (step 6).
PMMessageRecord(f) ==
    [ MessageRecord(f.contact_id, f.message.source, Inbound, f.draft_reply,
                    f.status, f.plan.classification.category,
                    f.plan.classification.conversation_stage,
                    f.message.received_at, f.message.account_id,
                    f.message.source_message_id)
      EXCEPT !.ai_draft_version = f.ai_draft_version ]

\* The classification update of the contact (step 7).
PMContactUpdates(f) ==
    [ lead_category |-> f.plan.classification.category,
      conversation_stage |-> f.plan.classification.conversation_stage,
      last_contact |-> f.message.received_at ]

\* _enrich_contact's write-back: the raw payload, and each hoisted field
\* when the frame's contact record has it empty.
PMEnrichUpdates(f) ==
    [ enriched_data |-> "enr" ]
    @@ Entry(EnrichData.title # "" /\ f.contact.title = "",
             [title |-> EnrichData.title])
    @@ Entry(EnrichData.company # NoText /\ f.contact.company = NoText,
             [company |-> EnrichData.company])
    @@ Entry(EnrichData.linkedin_url # "" /\ f.contact.linkedin_url = "",
             [linkedin_url |-> EnrichData.linkedin_url])
    @@ Entry(EnrichData.email # "" /\ f.contact.email = "",
             [email |-> EnrichData.email])

\* 1. Idempotency check: return None when the ledger has a row for the key.
PMIdempotency(w, f) ==
    IF is_message_processed(w.processed_messages, f.message.source,
                            f.message.source_message_id)
    THEN [ w |-> w, f |-> [f EXCEPT !.pc = "done", !.result = NoId,
                                    !.outcome = "skipped"] ]
    ELSE PMGoto(w, f, "find_existing")

\* 2. _upsert_contact: dedup.find_existing_contact(message).
PMFindExisting(w, f) ==
    LET existing == find_existing_contact(w.contacts, f.message)
        lookups == find_existing_lookups(w.contacts, f.message)
    IN IF existing # NoId
       THEN [ w |-> w,
              f |-> [f EXCEPT !.pc = "merge_update",
                              !.contact_id = existing,
                              !.contact = w.contacts[existing],
                              !.preexisting = TRUE,
                              !.lookups = lookups] ]
       ELSE PMGoto(w, [f EXCEPT !.lookups = lookups], "upsert_contact")

\* _upsert_contact, existing contact: crm.update_contact(existing.id, updates).
PMMergeUpdate(w, f) ==
    [ w |-> [w EXCEPT !.contacts =
                 update_contact(@, f.contact_id,
                                merge_contact_data(f.contact, f.message))],
      f |-> [f EXCEPT !.pc = "merge_audit"] ]

PMAudit(w, f, action, next) ==
    [ w |-> [w EXCEPT !.audit_log =
                 log_audit(@, AuditLogEntry(action, f.contact_id, f.msg_id))],
      f |-> [f EXCEPT !.pc = next] ]

\* _upsert_contact, no match: crm.upsert_contact(new ContactRecord).
PMUpsertContact(w, f) ==
    LET m == f.message
        r == upsert_contact(w.contacts,
                 ContactRecord(m.sender_name, m.sender_email,
                               m.sender_linkedin_url, m.sender_company,
                               m.sender_title, m.source, m.received_at))
    IN [ w |-> [w EXCEPT !.contacts = r.contacts],
         f |-> [f EXCEPT !.pc = "create_audit", !.contact_id = r.id,
                         !.contact = r.contacts[r.id]] ]

\* 3. _enrich_contact: enricher.enrich(...); its exceptions are swallowed.
PMEnrich(w, f) ==
    IF f.plan.enrich = "data" THEN PMGoto(w, f, "enrich_update")
    ELSE IF f.plan.enrich = "raise" THEN PMSwallow(w, f)
    ELSE PMGoto(w, f, "classify")

PMEnrichUpdate(w, f) ==
    IF f.plan.fault = f.pc THEN PMSwallow(w, f)
    ELSE [ w |-> [w EXCEPT !.contacts =
                      update_contact(@, f.contact_id, PMEnrichUpdates(f))],
           f |-> [f EXCEPT !.pc = "enrich_audit"] ]

PMEnrichAudit(w, f) ==
    IF f.plan.fault = f.pc THEN PMSwallow(w, f)
    ELSE [ w |-> [w EXCEPT !.audit_log =
                      log_audit(@, AuditLogEntry("enriched", f.contact_id,
                                                 NoId))],
           f |-> [f EXCEPT !.pc = "classify", !.enrichment_data = "enr"] ]

\* 4. _classify: classifier.classify(...).
PMClassify(w, f) ==
    PMGoto(w, [f EXCEPT !.classified_with = f.enrichment_data],
           IF f.plan.classification.should_reply
           THEN "draft" ELSE "create_message_lookup")

\* 5. _draft_reply: drafter.draft(...).
PMDraft(w, f) ==
    [ w |-> w,
      f |-> [f EXCEPT !.pc = "create_message_lookup",
                      !.drafter_called = TRUE,
                      !.draft_reply = DraftText,
                      !.ai_draft_version = DraftText,
                      !.status = "Draft Ready"] ]

\* 6. crm.create_message: the dedup lookup ...
PMCreateMessageLookup(w, f) ==
    LET existing == create_message_lookup(w.messages, PMMessageRecord(f))
    IN IF existing # NoId
       THEN [ w |-> w,
              f |-> [f EXCEPT !.pc = "update_contact", !.msg_id = existing] ]
       ELSE PMGoto(w, f, "create_message")

\* ... and the insert when the lookup found nothing.
PMCreateMessage(w, f) ==
    [ w |-> [w EXCEPT !.messages = Append(@, PMMessageRecord(f))],
      f |-> [f EXCEPT !.pc = "update_contact",
                      !.msg_id = Len(w.messages) + 1] ]

\* 7. crm.update_contact(contact.id, contact_updates).
PMUpdateContact(w, f) ==
    [ w |-> [w EXCEPT !.contacts =
                 update_contact(@, f.contact_id, PMContactUpdates(f))],
      f |-> [f EXCEPT !.pc = "mark_processed"] ]

\* 8. db.mark_message_processed(..., status="processed", ids).
PMMarkProcessed(w, f) ==
    [ w |-> [w EXCEPT !.processed_messages =
                 mark_message_processed(@, f.message.source,
                     f.message.source_message_id, "processed",
                     f.msg_id, f.contact_id)],
      f |-> [f EXCEPT !.pc = "audit_received"] ]

\* 9. db.log_local_audit("pipeline_complete") and return msg_record.id.
PMLocalAudit(w, f) ==
    [ w |-> [w EXCEPT !.local_audit =
                 log_local_audit(@, "pipeline_complete", f.msg_id,
                                 f.contact_id)],
      f |-> [f EXCEPT !.pc = "done", !.result = f.msg_id,
                      !.outcome = "processed"] ]

\* Mutant of PMHandler: the except clause returns None without the ledger
\* write.
PMHandlerNoLedger(w, f) ==
    [ w |-> w,
      f |-> [f EXCEPT !.pc = "done", !.result = NoId, !.outcome = "failed"] ]

\* except Exception: db.mark_message_failed(...); return None.
PMHandler(w, f) ==
    [ w |-> [w EXCEPT !.processed_messages =
                 mark_message_failed(@, f.message.source,
                     f.message.source_message_id, f.error)],
      f |-> [f EXCEPT !.pc = "done", !.result = NoId,
                      !.outcome = "failed"] ]

\* One step of process_message.
PMStep(w, f) ==
    CASE f.pc = "idempotency" -> PMIdempotency(w, f)
      [] f.pc = "handler" -> PMHandler(w, f)
      [] f.pc = "enrich" -> PMEnrich(w, f)
      [] f.pc = "enrich_update" -> PMEnrichUpdate(w, f)
      [] f.pc = "enrich_audit" -> PMEnrichAudit(w, f)
      [] f.plan.fault = f.pc -> PMRaise(w, f)
      [] f.pc = "find_existing" -> PMFindExisting(w, f)
      [] f.pc = "merge_update" -> PMMergeUpdate(w, f)
      [] f.pc = "merge_audit" ->
             PMAudit(w, f, "contact_updated", "enrich")
      [] f.pc = "upsert_contact" -> PMUpsertContact(w, f)
      [] f.pc = "create_audit" ->
             PMAudit(w, f, "contact_created", "enrich")
      [] f.pc = "classify" -> PMClassify(w, f)
      [] f.pc = "draft" -> PMDraft(w, f)
      [] f.pc = "create_message_lookup" -> PMCreateMessageLookup(w, f)
      [] f.pc = "create_message" -> PMCreateMessage(w, f)
      [] f.pc = "update_contact" -> PMUpdateContact(w, f)
      [] f.pc = "mark_processed" -> PMMarkProcessed(w, f)
      [] f.pc = "audit_received" ->
             PMAudit(w, f, "message_received", "audit_classified")
      [] f.pc = "audit_classified" ->
             PMAudit(w, f, "classified",
                     IF f.draft_reply # NoText THEN "audit_draft"
                     ELSE "local_audit")
      [] f.pc = "audit_draft" ->
             PMAudit(w, f, "draft_created", "local_audit")
      [] f.pc = "local_audit" -> PMLocalAudit(w, f)

\* process_message run to its return.
RECURSIVE PMRun(_, _)
PMRun(w, f) ==
    IF f.pc = "done" THEN [ w |-> w, f |-> f ]
    ELSE CHOOSE r \in { PMRun(s.w, s.f) : s \in { PMStep(w, f) } } : TRUE

process_message(w, message, plan) == PMRun(w, PMFrame(message, plan))

-----------------------------------------------------------------------------
(* InboundPipeline.process_batch (sdr/pipeline.py).                        *)

NoBatch ==
    [ active |-> FALSE, msgs |-> << >>, i |-> 1, attempted |-> 0,
      outcomes |-> << >>,
      stats |-> [ total |-> 0, processed |-> 0, skipped |-> 0, failed |-> 0 ] ]

\* stats = {"total": len(messages), "processed": 0, "skipped": 0, "failed": 0}
BatchFrame(msgs) ==
    [ active |-> TRUE, msgs |-> msgs, i |-> 1, attempted |-> 0,
      outcomes |-> << >>,
      stats |-> [ total |-> Len(msgs), processed |-> 0, skipped |-> 0,
                  failed |-> 0 ] ]

\* How the loop body counts one message: `if result` processed, else the
\* ledger is read again: a row for the key counts as skipped, none as failed.
BatchCount(pm, msg, result) ==
    IF result # NoId THEN "processed"
    ELSE IF is_message_processed(pm, msg.source, msg.source_message_id)
         THEN "skipped"
         ELSE "failed"

\* Mutant of BatchIterate: a failed message ends the loop.
BatchIterateBreak(w, b, plan) ==
    LET msg == b.msgs[b.i]
        r == process_message(w, msg, plan)
        counted == BatchCount(r.w.processed_messages, msg, r.f.result)
    IN [ w |-> r.w, f |-> r.f, counted |-> counted,
         b |-> [b EXCEPT !.i = IF r.f.outcome = "failed"
                                THEN Len(b.msgs) + 1 ELSE @ + 1,
                         !.attempted = @ + 1,
                         !.outcomes = Append(@, r.f.outcome),
                         !.stats[counted] = @ + 1] ]

\* One iteration of `for msg in messages`.
BatchIterate(w, b, plan) ==
    LET msg == b.msgs[b.i]
        r == process_message(w, msg, plan)
        counted == BatchCount(r.w.processed_messages, msg, r.f.result)
    IN [ w |-> r.w, f |-> r.f, counted |-> counted,
         b |-> [b EXCEPT !.i = @ + 1, !.attempted = @ + 1,
                         !.outcomes = Append(@, r.f.outcome),
                         !.stats[counted] = @ + 1] ]

-----------------------------------------------------------------------------
(* Sequential specification of the inbound side: invocations of            *)
(* process_message and process_batch, one after the other.                 *)

NoCall ==
    [ op |-> "none", message |-> M1, prior |-> "none", clean |-> TRUE,
      category |-> "", raised |-> "", error |-> "", outcome |-> "none",
      result |-> NoId, counted |-> "", enrich |-> "none",
      should_reply |-> FALSE, classified_with |-> "none",
      drafter_called |-> FALSE, contact_id |-> NoId, lookups |-> << >> ]

\* The status the ledger holds for a message's key ("none": no row).
LedgerStatus(pm, m) ==
    LET rows == LedgerRows(pm, m.source, m.source_message_id)
    IN IF rows = {} THEN "none" ELSE (CHOOSE r \in rows : TRUE).status

\* The record of a completed process_message invocation.
CallRecord(op, m, plan, f, counted) ==
    [ op |-> op, message |-> m,
      prior |-> LedgerStatus(processed_messages, m),
      clean |-> plan.fault = "none" /\ plan.enrich # "raise",
      category |-> plan.classification.category,
      raised |-> f.raised, error |-> f.error, outcome |-> f.outcome,
      result |-> f.result, counted |-> counted, enrich |-> plan.enrich,
      should_reply |-> plan.classification.should_reply,
      classified_with |-> f.classified_with,
      drafter_called |-> f.drafter_called, contact_id |-> f.contact_id,
      lookups |-> f.lookups ]

SetWorld(w) ==
    /\ contacts' = w.contacts
    /\ messages' = w.messages
    /\ audit_log' = w.audit_log
    /\ processed_messages' = w.processed_messages
    /\ local_audit' = w.local_audit
    /\ sends' = w.sends
    /\ today' = w.today
    /\ learning_log' = w.learning_log
    /\ circuit_breaker' = w.circuit_breaker
    /\ monotonic' = w.monotonic

Init ==
    /\ contacts = << >>
    /\ messages = << >>
    /\ audit_log = << >>
    /\ processed_messages = {}
    /\ local_audit = << >>
    /\ sends = << >>
    /\ today = 1
    /\ learning_log = << >>
    /\ circuit_breaker = NewCircuitBreaker
    /\ monotonic = 0
    /\ ncalls = 0
    /\ last = NoCall
    /\ batch = NoBatch
    /\ frames = << >>

\* pipeline.process_message(m), called directly.
Call(m, plan, limit) ==
    /\ ~batch.active
    /\ ncalls < limit
    /\ LET r == process_message(World, m, plan)
       IN /\ SetWorld(r.w)
          /\ last' = CallRecord("process_message", m, plan, r.f, "")
    /\ ncalls' = ncalls + 1
    /\ UNCHANGED << batch, frames >>

ProcessMessage(m, plan) == Call(m, plan, MaxCalls)

\* pipeline.process_batch(msgs) is entered.
BatchBegin(msgs) ==
    /\ ~batch.active
    /\ ncalls + Len(msgs) <= MaxCalls
    /\ batch' = BatchFrame(msgs)
    /\ UNCHANGED << contacts, messages, audit_log, processed_messages,
                    local_audit, sends, today, learning_log,
                    circuit_breaker, monotonic, ncalls, last, frames >>

\* The loop of process_batch handles its next message.
BatchIter(plan) ==
    /\ batch.active
    /\ batch.i <= Len(batch.msgs)
    /\ LET r == BatchIterate(World, batch, plan)
       IN /\ SetWorld(r.w)
          /\ batch' = r.b
          /\ last' = CallRecord("process_batch", batch.msgs[batch.i], plan,
                                r.f, r.counted)
    /\ ncalls' = ncalls + 1
    /\ UNCHANGED frames

\* process_batch returns its stats.
BatchReturn ==
    /\ batch.active
    /\ batch.i > Len(batch.msgs)
    /\ batch' = [batch EXCEPT !.active = FALSE]
    /\ UNCHANGED << contacts, messages, audit_log, processed_messages,
                    local_audit, sends, today, learning_log,
                    circuit_breaker, monotonic, ncalls, last, frames >>

BatchLists == UNION { [1..n -> Msgs] : n \in 1..MaxBatch }

Next ==
    \/ \E m \in Msgs, plan \in PMPlans : ProcessMessage(m, plan)
    \/ \E msgs \in BatchLists : BatchBegin(msgs)
    \/ \E plan \in PMPlans : BatchIter(plan)
    \/ BatchReturn

Spec == Init /\ [][Next]_vars

\* A sequential run over senders that the deduplicator has to tell apart.
\* The senders of n1 and n2 have names of which one contains the other and
\* the same company; n3, n4 and n6 carry the shorter name and nothing else
\* but a company (n3: the company of n1 and n2 in other case, n4: the
\* company of n5, n6: none); n5 has the longer name and another company;
\* k1 has the email of n1 and the profile URL of M2; u1 and u2 come from
\* unresolved LinkedIn senders.
MaxDedupCalls == 3

DedupMsgs ==
    { InboundMessage(Gmail, "n1", NameAnn, "ann@x", "", CompanyAb, "", 1, ""),
      InboundMessage(Gmail, "n2", NameAnna, "ana@x", "", CompanyAb, "", 1, ""),
      InboundMessage(LinkedIn, "n3", NameAnn, "", "", CompanyAbUpper, "", 2, "acct"),
      InboundMessage(LinkedIn, "n4", NameAnn, "", "", CompanyBo, "", 2, "acct"),
      InboundMessage(Gmail, "n5", NameAnna, "anb@x", "", CompanyBo, "", 1, ""),
      InboundMessage(LinkedIn, "n6", NameAnn, "", "", NoText, "", 2, "acct"),
      InboundMessage(Gmail, "k1", NameBo, "ann@x", "li/bo", NoText, "", 2, ""),
      M2,
      InboundMessage(LinkedIn, "u1", Unknown, "", "", NoText, "", 1, "acct"),
      InboundMessage(LinkedIn, "u2", Unknown, "", "", NoText, "", 2, "acct") }

DedupPlan ==
    [ classification |-> Classification("Not a Lead", "New", FALSE),
      enrich |-> "none", fault |-> "none" ]

Resolve(m) == Call(m, DedupPlan, MaxDedupCalls)

NextDedup == \E m \in DedupMsgs : Resolve(m)

SpecDedup == Init /\ [][NextDedup]_vars

\* merge_contact_data applied to every combination of present and absent
\* identity fields on the existing contact and on the message.  frames
\* holds the arguments and the update map of the latest application.
MaxMerges == 2

MergeContacts ==
    { ContactRecord(NameAnn, email, url, company, title, channel, 1) :
        email \in { "", "ann@x" }, url \in { "", "li/ann" },
        company \in { NoText, CompanyAb }, title \in { "", "CTO" },
        channel \in { Gmail, LinkedIn, Both } }

MergeMsgs ==
    { InboundMessage(source, "g1", NameAnn, email, url, company, title, 2, "") :
        source \in { Gmail, LinkedIn }, email \in { "", "new@x" },
        url \in { "", "li/new" }, company \in { NoText, CompanyBo },
        title \in { "", "VP" } }

InitMerge ==
    /\ contacts \in { << c >> : c \in MergeContacts }
    /\ messages = << >>
    /\ audit_log = << >>
    /\ processed_messages = {}
    /\ local_audit = << >>
    /\ sends = << >>
    /\ today = 1
    /\ learning_log = << >>
    /\ circuit_breaker = NewCircuitBreaker
    /\ monotonic = 0
    /\ ncalls = 0
    /\ last = NoCall
    /\ batch = NoBatch
    /\ frames = << >>

\* updates = merge_contact_data(existing, message), written to the CRM as
\* _upsert_contact does.
Merge(m) ==
    /\ ncalls < MaxMerges
    /\ LET updates == merge_contact_data(contacts[1], m)
       IN /\ contacts' = update_contact(contacts, 1, updates)
          /\ frames' = << [ existing |-> contacts[1], message |-> m,
                            updates |-> updates ] >>
    /\ ncalls' = ncalls + 1
    /\ UNCHANGED << messages, audit_log, processed_messages, local_audit,
                    sends, today, learning_log,
                    circuit_breaker, monotonic, last, batch >>

NextMerge == \E m \in MergeMsgs : Merge(m)

SpecMerge == InitMerge /\ [][NextMerge]_vars

\* A longer sequential run over fewer inputs: the two messages that share
\* a source_message_id, a classifier that answers or raises.
DeepMsgs == { M1, M2 }

DeepPlans ==
    { plan \in PMPlans : plan.enrich = "none"
                         /\ plan.fault \in { "none", "classify" } }

DeepProcessMessage(m, plan) == Call(m, plan, MaxDeepCalls)

NextDeep == \E m \in DeepMsgs, plan \in DeepPlans : DeepProcessMessage(m, plan)

SpecDeep == Init /\ [][NextDeep]_vars

\* A sequential run in which every step of the try block may raise, over
\* two messages of one sender (the second finds the contact of the first).
FaultMsgs == { M1, M3 }

FaultPlans == PMPlansOver(PMTrySteps)

FaultyProcessMessage(m, plan) == Call(m, plan, MaxCalls)

NextFaults ==
    \E m \in FaultMsgs, plan \in FaultPlans : FaultyProcessMessage(m, plan)

SpecFaults == Init /\ [][NextFaults]_vars

-----------------------------------------------------------------------------
(* Concurrent specification of the inbound side: overlapping invocations   *)
(* of process_message (two poll cycles), interleaved step by step.  The    *)
(* collaborators do not fail here.                                         *)

MaxProcs == 2

RacePlans == { plan \in PMPlans : plan.enrich = "none" /\ plan.fault = "none" }

\* An invocation of process_message(m) begins.
RaceStart(m, plan) ==
    /\ Len(frames) < MaxProcs
    /\ frames' = Append(frames, PMFrame(m, plan))
    /\ UNCHANGED << contacts, messages, audit_log, processed_messages,
                    local_audit, sends, today, learning_log,
                    circuit_breaker, monotonic, ncalls, last, batch >>

\* Invocation p takes its next step.
RaceStep(p) ==
    /\ frames[p].pc # "done"
    /\ LET s == PMStep(World, frames[p])
       IN /\ SetWorld(s.w)
          /\ frames' = [frames EXCEPT ![p] = s.f]
    /\ UNCHANGED << ncalls, last, batch >>

NextRace ==
    \/ \E m \in Msgs, plan \in RacePlans : RaceStart(m, plan)
    \/ \E p \in DOMAIN frames : RaceStep(p)

SpecRace == Init /\ [][NextRace]_vars

-----------------------------------------------------------------------------
(* Outbound sender loop (sdr/outbound.py).                                 *)

\* difflib.SequenceMatcher.find_longest_match without junk: the longest
\* block a[i..i+k-1] = b[j..j+k-1] inside the two ranges, the one starting
\* earliest in a, then earliest in b.
LongestMatch(a, alo, ahi, b, blo, bhi) ==
    LET Blocks == { t \in (alo..ahi) \X (blo..bhi) \X (1..Len(a)) :
                      /\ t[1] + t[3] - 1 <= ahi
                      /\ t[2] + t[3] - 1 <= bhi
                      /\ SubSeq(a, t[1], t[1] + t[3] - 1)
                           = SubSeq(b, t[2], t[2] + t[3] - 1) }
        Better(t, u) == \/ t[3] > u[3]
                        \/ t[3] = u[3] /\ t[1] < u[1]
                        \/ t[3] = u[3] /\ t[1] = u[1] /\ t[2] <= u[2]
    IN IF Blocks = {} THEN << alo, blo, 0 >>
       ELSE CHOOSE t \in Blocks : \A u \in Blocks : Better(t, u)

\* The number of matched characters SequenceMatcher.get_matching_blocks
\* finds: the longest match, then the same to its left and to its right.
RECURSIVE MatchCount(_, _, _, _, _, _)
MatchCount(a, alo, ahi, b, blo, bhi) ==
    IF alo > ahi \/ blo > bhi THEN 0
    ELSE LET t == LongestMatch(a, alo, ahi, b, blo, bhi)
         IN IF t[3] = 0 THEN 0
            ELSE t[3]
                 + MatchCount(a, alo, t[1] - 1, b, blo, t[2] - 1)
                 + MatchCount(a, t[1] + t[3], ahi, b, t[2] + t[3], bhi)

\* Mutant of compute_edit_distance: the two empty-text tests are left out.
compute_edit_distance_no_guard(original, edited) ==
    LET total == Len(original) + Len(edited)
        matches == MatchCount(original, 1, Len(original),
                              edited, 1, Len(edited))
    IN IF total = 0 THEN 1000
       ELSE (2000 * (total - 2 * matches) + total) \div (2 * total)

\* compute_edit_distance in thousandths: 0 for two empty texts, 1000 when
\* one is empty, else round(1.0 - ratio, 3) with ratio = 2 * matches / total.
compute_edit_distance(original, edited) ==
    IF original = NoText /\ edited = NoText THEN 0
    ELSE IF original = NoText \/ edited = NoText THEN 1000
    ELSE LET total == Len(original) + Len(edited)
             matches == MatchCount(original, 1, Len(original),
                                   edited, 1, Len(edited))
         IN (2000 * (total - 2 * matches) + total) \div (2 * total)

\* get_message(record_id): the row, as read at this moment.
get_message(ms, id) == ms[id]

\* get_contact_for_message(message_id): the id of the linked contact, NoId
\* when the message has no link.
get_contact_for_message(ms, id) == ms[id].contact_id

\* Steps of one loop iteration at which the model makes a call fail.  A
\* failing get_message or get_contact_for_message returns None (the CRM
\* wrapper catches the exception); the others raise.
OBFaults ==
    { "get_message", "empty_fail", "get_contact", "send", "mark_sent",
      "get_contact2", "update_contact", "audit" }

\* One invocation's inputs: the position in the approved list and the step
\* at which a call fails ("none": no failure).
OBPlans ==
    { [ at |-> 0, fault |-> "none" ] }
    \cup [ at : 1..2, fault : OBFaults ]

\* The frame at entry of process_approved_messages.
OBFrame(plan) ==
    [ pc |-> "list", plan |-> plan, approved |-> << >>, i |-> 1,
      current |-> EmptyMap, contact_id |-> NoId, contact |-> EmptyMap,
      edit_dist |-> -1, error |-> "", sent_count |-> 0, result |-> -1,
      skipped |-> {}, written |-> {}, sent |-> {} ]

OBGoto(w, f, pc) == [ w |-> w, f |-> [f EXCEPT !.pc = pc] ]

\* The call of the current step fails under the invocation's plan.
OBFails(f) == f.plan.at = f.i /\ f.plan.fault = f.pc

\* `continue`: on to the next message of the list.
OBContinue(w, f) ==
    [ w |-> w, f |-> [f EXCEPT !.pc = "get_message", !.i = @ + 1] ]

\* An exception inside the try block of the loop body.
OBRaise(w, f) ==
    [ w |-> w, f |-> [f EXCEPT !.pc = "except_update", !.error = f.pc] ]

\* approved = crm.get_approved_messages(); return 0 when there are none.
OBList(w, f) ==
    LET approved == get_approved_messages(w.messages)
    IN IF approved = << >>
       THEN [ w |-> w, f |-> [f EXCEPT !.pc = "done", !.result = 0] ]
       ELSE [ w |-> w,
              f |-> [f EXCEPT !.pc = "get_message", !.approved = approved] ]

\* Mutant of OBGetMessage: the status of the re-fetched message is not
\* compared with Approved.
OBGetMessageNoRecheck(w, f) ==
    IF f.i > Len(f.approved)
    THEN [ w |-> w, f |-> [f EXCEPT !.pc = "done", !.result = f.sent_count] ]
    ELSE LET id == f.approved[f.i]
             current == get_message(w.messages, id)
         IN IF OBFails(f)
            THEN OBContinue(w, [f EXCEPT !.skipped = @ \cup { id }])
            ELSE [ w |-> w,
                   f |-> [f EXCEPT
                            !.current = current,
                            !.edit_dist =
                                IF current.ai_draft_version # NoText
                                THEN compute_edit_distance(
                                         current.ai_draft_version,
                                         current.draft_reply)
                                ELSE -1,
                            !.pc = IF current.draft_reply = NoText
                                   THEN "empty_fail"
                                   ELSE IF current.source = Gmail
                                   THEN "get_contact"
                                   ELSE "send"] ]

\* current = crm.get_message(msg.id); skip the message when it cannot be
\* fetched or its status is no longer Approved.  With the list exhausted
\* the function returns sent_count.
OBGetMessage(w, f) ==
    IF f.i > Len(f.approved)
    THEN [ w |-> w, f |-> [f EXCEPT !.pc = "done", !.result = f.sent_count] ]
    ELSE LET id == f.approved[f.i]
             current == get_message(w.messages, id)
         IN IF OBFails(f) \/ current.status # "Approved"
            THEN OBContinue(w, [f EXCEPT !.skipped = @ \cup { id }])
            ELSE [ w |-> w,
                   f |-> [f EXCEPT
                            !.current = current,
                            !.edit_dist =
                                IF current.ai_draft_version # NoText
                                THEN compute_edit_distance(
                                         current.ai_draft_version,
                                         current.draft_reply)
                                ELSE -1,
                            !.pc = IF current.draft_reply = NoText
                                   THEN "empty_fail"
                                   ELSE IF current.source = Gmail
                                   THEN "get_contact"
                                   ELSE "send"] ]

\* Mutant of OBFailMessage: the reason is recorded, the status is left.
OBFailMessageKeepStatus(w, f, reason) ==
    LET id == f.approved[f.i]
    IN OBContinue([w EXCEPT !.messages =
                       update_message(@, id, [ send_error |-> reason ])],
                  [f EXCEPT !.written = @ \cup { id }])

\* crm.update_message(msg.id, {Status: Failed, Send Error: reason}); continue.
OBFailMessage(w, f, reason) ==
    LET id == f.approved[f.i]
    IN OBContinue([w EXCEPT !.messages =
                       update_message(@, id, [ status |-> "Failed",
                                               send_error |-> reason ])],
                  [f EXCEPT !.written = @ \cup { id }])

\* Gmail: contact = crm.get_contact_for_message(msg.id); no contact or no
\* email on it fails the message.
OBGetContact(w, f) ==
    LET cid == get_contact_for_message(w.messages, f.approved[f.i])
    IN IF OBFails(f) \/ cid = NoId \/ w.contacts[cid].email = ""
       THEN OBGoto(w, f, "no_email_fail")
       ELSE OBGoto(w, [f EXCEPT !.contact_id = cid], "send")

\* sender.send(channel=..., body=reply_text, ...).
OBSend(w, f) ==
    [ w |-> [w EXCEPT !.sends =
                 Append(@, [ msg_id |-> f.approved[f.i],
                             channel |-> f.current.source,
                             body |-> f.current.draft_reply,
                             status |-> f.current.status ])],
      f |-> [f EXCEPT !.pc = "mark_sent",
                      !.sent = @ \cup { f.approved[f.i] }] ]

\* crm.update_message(msg.id, {Status: Sent, Sent At, Edit Distance}).
OBMarkSent(w, f) ==
    LET id == f.approved[f.i]
    IN [ w |-> [w EXCEPT !.messages =
                    update_message(@, id,
                        [ status |-> "Sent", sent_at |-> w.today ]
                        @@ Entry(f.edit_dist # -1,
                                 [edit_distance |-> f.edit_dist]))],
         f |-> [f EXCEPT !.pc = "get_contact2", !.written = @ \cup { id }] ]

\* contact = crm.get_contact_for_message(msg.id), read again after the send.
OBGetContact2(w, f) ==
    LET cid == get_contact_for_message(w.messages, f.approved[f.i])
    IN IF OBFails(f) \/ cid = NoId
       THEN OBGoto(w, [f EXCEPT !.contact_id = NoId], "audit")
       ELSE [ w |-> w,
              f |-> [f EXCEPT !.contact_id = cid,
                              !.contact = w.contacts[cid],
                              !.pc = "update_contact"] ]

\* Mutant of OBUpdateContact: the stage is set to Engaging whatever it was.
OBUpdateContactAlwaysPromote(w, f) ==
    [ w |-> [w EXCEPT !.contacts =
                 update_contact(@, f.contact_id,
                     [ last_outbound_at |-> w.today,
                       conversation_stage |-> "Engaging" ])],
      f |-> [f EXCEPT !.pc = "audit"] ]

\* crm.update_contact(contact.id, {Last Outbound At, and Conversation Stage
\* = Engaging when the contact read was New}).
OBUpdateContact(w, f) ==
    [ w |-> [w EXCEPT !.contacts =
                 update_contact(@, f.contact_id,
                     [ last_outbound_at |-> w.today ]
                     @@ Entry(f.contact.conversation_stage = "New",
                              [conversation_stage |-> "Engaging"]))],
      f |-> [f EXCEPT !.pc = "audit"] ]

\* crm.log_audit(SENT); sent_count += 1.
OBAudit(w, f) ==
    OBContinue([w EXCEPT !.audit_log =
                    log_audit(@, AuditLogEntry("sent", f.contact_id,
                                               f.approved[f.i]))],
               [f EXCEPT !.sent_count = @ + 1])

\* Mutant of OBExcept: the exception is logged and nothing is written.
OBExceptNoWrite(w, f) == OBContinue(w, f)

\* except Exception: crm.update_message(msg.id, {Status: Failed, Send Error}).
OBExcept(w, f) == OBFailMessage(w, f, f.error)

\* One step of process_approved_messages.
OBStep(w, f) ==
    CASE f.pc = "list" -> OBList(w, f)
      [] f.pc = "get_message" -> OBGetMessage(w, f)
      [] f.pc = "get_contact" -> OBGetContact(w, f)
      [] f.pc = "get_contact2" -> OBGetContact2(w, f)
      [] f.pc = "except_update" -> OBExcept(w, f)
      [] OBFails(f) -> OBRaise(w, f)
      [] f.pc = "empty_fail" -> OBFailMessage(w, f, "Draft reply is empty")
      [] f.pc = "no_email_fail" ->
             OBFailMessage(w, f, "No recipient email found on linked contact")
      [] f.pc = "send" -> OBSend(w, f)
      [] f.pc = "mark_sent" -> OBMarkSent(w, f)
      [] f.pc = "update_contact" -> OBUpdateContact(w, f)
      [] f.pc = "audit" -> OBAudit(w, f)

\* process_approved_messages run to its return.
RECURSIVE OBRun(_, _)
OBRun(w, f) ==
    IF f.pc = "done" THEN [ w |-> w, f |-> f ]
    ELSE CHOOSE r \in { OBRun(s.w, s.f) : s \in { OBStep(w, f) } } : TRUE

process_approved_messages(w, plan) == OBRun(w, OBFrame(plan))

-----------------------------------------------------------------------------
(* The reviewer working in the CRM between the inbound and the outbound    *)
(* side: approves, edits or rejects a drafted reply.                       *)

Approve(id) ==
    /\ messages[id].status = "Draft Ready"
    /\ messages' = update_message(messages, id, [ status |-> "Approved" ])
    /\ UNCHANGED << contacts, audit_log, processed_messages, local_audit,
                    sends, today, learning_log,
                    circuit_breaker, monotonic, ncalls, last, batch, frames >>

Reject(id) ==
    /\ messages[id].status \in { "Draft Ready", "Approved" }
    /\ messages' = update_message(messages, id, [ status |-> "Rejected" ])
    /\ UNCHANGED << contacts, audit_log, processed_messages, local_audit,
                    sends, today, learning_log,
                    circuit_breaker, monotonic, ncalls, last, batch, frames >>

EditDraft(id, text) ==
    /\ messages[id].status = "Draft Ready"
    /\ messages[id].draft_reply # text
    /\ messages' = update_message(messages, id, [ draft_reply |-> text ])
    /\ UNCHANGED << contacts, audit_log, processed_messages, local_audit,
                    sends, today, learning_log,
                    circuit_breaker, monotonic, ncalls, last, batch, frames >>

-----------------------------------------------------------------------------
(* Step-level specifications of the outbound side: messages arrive and    *)
(* are drafted, the reviewer works on them, and process_approved_messages  *)
(* runs step by step, so that the reviewer (SpecSend) and a second,        *)
(* overlapping invocation (SpecSendRace) act between its steps.            *)

MaxSenders == 1

SendMsgs == { M2, M3 }

SendPipelinePlans ==
    { plan \in PMPlans : /\ plan.enrich = "none" /\ plan.fault = "none"
                         /\ plan.classification.should_reply }

SendPlans ==
    { plan \in OBPlans : plan.at <= 1
                         /\ plan.fault \in { "none", "get_message", "send" } }

Receive(m, plan) == Call(m, plan, MaxCalls)

\* An invocation of process_approved_messages begins.
SendStart(plan, limit) ==
    /\ Len(frames) < limit
    /\ frames' = Append(frames, OBFrame(plan))
    /\ UNCHANGED << contacts, messages, audit_log, processed_messages,
                    local_audit, sends, today, learning_log,
                    circuit_breaker, monotonic, ncalls, last, batch >>

\* Invocation p takes its next step.
SendStep(p) ==
    /\ frames[p].pc # "done"
    /\ LET s == OBStep(World, frames[p])
       IN /\ SetWorld(s.w)
          /\ frames' = [frames EXCEPT ![p] = s.f]
    /\ UNCHANGED << ncalls, last, batch >>

NextSend ==
    \/ \E m \in SendMsgs, plan \in SendPipelinePlans : Receive(m, plan)
    \/ \E id \in DOMAIN messages : Approve(id)
    \/ \E id \in DOMAIN messages : Reject(id)
    \/ \E id \in DOMAIN messages, text \in { EditedText, NoText } :
           EditDraft(id, text)
    \/ \E plan \in SendPlans : SendStart(plan, MaxSenders)
    \/ \E p \in DOMAIN frames : SendStep(p)

SpecSend == Init /\ [][NextSend]_vars

NextSendRace ==
    \/ \E m \in SendMsgs, plan \in SendPipelinePlans : Receive(m, plan)
    \/ \E id \in DOMAIN messages : Approve(id)
    \/ \E plan \in { q \in SendPlans : q.fault = "none" } :
           SendStart(plan, MaxProcs)
    \/ \E p \in DOMAIN frames : SendStep(p)

SpecSendRace == Init /\ [][NextSendRace]_vars

-----------------------------------------------------------------------------
(* Sequential specification of the outbound side: messages arrive and are  *)
(* drafted, the reviewer works on them, and process_approved_messages runs *)
(* from its call to its return, one invocation after the other.  frames    *)
(* holds the frame the latest invocation returned with.                    *)

\* A Gmail message whose From header carried no address.
M5 == InboundMessage(Gmail, "s4", NameBo, "", "", NoText, "", 2, "")

OutMsgs == { M2, M3, M5 }

\* What the classifier answers for each message: a reply is wanted, and
\* the conversation is in a stage the outbound loop promotes (New) or in
\* one it leaves alone (Qualifying).
OutClassification(m) ==
    IF m = M2 THEN Classification("Hot", "Qualifying", TRUE)
    ELSE Classification("Warm", "New", TRUE)

OutPipelinePlan(m) ==
    [ classification |-> OutClassification(m), enrich |-> "none",
      fault |-> "none" ]

\* The invocation's failing call, if any, is made for the first message of
\* the list.
OutPlans == { plan \in OBPlans : plan.at <= 1 }

\* The pipeline handles a message the poller delivers for the first time.
OutReceive(m, plan) ==
    /\ LedgerStatus(processed_messages, m) = "none"
    /\ Call(m, plan, MaxCalls)

\* What is kept of the frame of a returned invocation: its inputs, the list
\* it read, its return value and the record of what it did.
OBReturned(f) ==
    [ pc |-> f.pc, plan |-> f.plan, approved |-> f.approved,
      error |-> f.error, result |-> f.result, skipped |-> f.skipped,
      written |-> f.written, sent |-> f.sent ]

\* One invocation of process_approved_messages, from call to return.
RunOutbound(plan) ==
    /\ LET r == process_approved_messages(World, plan)
       IN /\ SetWorld(r.w)
          /\ frames' = << OBReturned(r.f) >>
    /\ UNCHANGED << ncalls, last, batch >>

NextOutbound ==
    \/ \E m \in OutMsgs : OutReceive(m, OutPipelinePlan(m))
    \/ \E id \in DOMAIN messages : Approve(id)
    \/ \E id \in DOMAIN messages : EditDraft(id, NoText)
    \/ \E plan \in OutPlans : RunOutbound(plan)

SpecOutbound == Init /\ [][NextOutbound]_vars

-----------------------------------------------------------------------------
(* Follow-up cadence engine (sdr/followup.py) and the CRM queries it uses. *)
(* cfg is the FollowUpConfig the cycle is called with.  The channel of a   *)
(* follow-up is "LinkedIn" or "Email", "" when there is none.              *)

\* get_messages_for_contact(contact_id, direction): ids of the rows linked
\* to the contact, of the direction asked for ("": either).
get_messages_for_contact(ms, id, direction) ==
    SelectIdx(ms, { i \in DOMAIN ms : /\ ms[i].contact_id = id
                                       /\ direction \in { "", ms[i].direction } })

\* Mutant of get_contacts_for_followup: the status is not looked at.
get_contacts_for_followup_any_status(cs, now) ==
    SelectIdx(cs, { i \in DOMAIN cs : /\ cs[i].next_follow_up_date # 0
                                       /\ cs[i].next_follow_up_date < now + 1 })

\* get_contacts_for_followup: Follow-Up Status = Active and Next Follow-Up
\* Date before tomorrow.
get_contacts_for_followup(cs, now) ==
    SelectIdx(cs, { i \in DOMAIN cs : /\ cs[i].follow_up_status = "Active"
                                       /\ cs[i].next_follow_up_date # 0
                                       /\ cs[i].next_follow_up_date < now + 1 })

\* Mutant of get_stale_contacts: the cadence status is not looked at.
get_stale_contacts_any_status(cs, now, days_stale) ==
    SelectIdx(cs, { i \in DOMAIN cs :
        /\ cs[i].conversation_stage \in { "Engaging", "Qualifying", "Follow Up" }
        /\ cs[i].last_outbound_at # 0
        /\ cs[i].last_outbound_at < now - days_stale
        /\ cs[i].lead_category # "Not a Lead" })

\* get_stale_contacts(days_stale): an open stage, no cadence status, a
\* Last Outbound At before today - days_stale, and not Not a Lead.
get_stale_contacts(cs, now, days_stale) ==
    SelectIdx(cs, { i \in DOMAIN cs :
        /\ cs[i].conversation_stage \in { "Engaging", "Qualifying", "Follow Up" }
        /\ cs[i].follow_up_status = ""
        /\ cs[i].last_outbound_at # 0
        /\ cs[i].last_outbound_at < now - days_stale
        /\ cs[i].lead_category # "Not a Lead" })

\* list.sort(key=..., reverse=True) on a list of row ids: largest key first,
\* rows of equal key in the order they had.  key maps DOMAIN seq to numbers.
SortedDesc(seq, key) ==
    LET Before(j, k) == key[j] > key[k] \/ (key[j] = key[k] /\ j < k)
        Pos(k) == 1 + Cardinality({ j \in DOMAIN seq : Before(j, k) })
    IN [ p \in DOMAIN seq |-> seq[CHOOSE k \in DOMAIN seq : Pos(k) = p] ]

\* _has_recent_inbound(crm, contact_id, since_date).
_has_recent_inbound(ms, id, since) ==
    /\ since # 0
    /\ LET rows == get_messages_for_contact(ms, id, Inbound)
       IN \E k \in DOMAIN rows : /\ ms[rows[k]].received_at # 0
                                 /\ ms[rows[k]].received_at >= since

\* Mutant of _has_pending_outbound: only approved messages count.
_has_pending_outbound_approved(ms, id) ==
    LET rows == get_messages_for_contact(ms, id, Outbound)
    IN \E k \in DOMAIN rows : ms[rows[k]].status = "Approved"

\* _has_pending_outbound(crm, contact_id).
_has_pending_outbound(ms, id) ==
    LET rows == get_messages_for_contact(ms, id, Outbound)
    IN \E k \in DOMAIN rows : ms[rows[k]].status \in { "Draft Ready", "Approved" }

\* Mutant of _determine_channel: LinkedIn is preferred at every count.
_determine_channel_linkedin(c, cfg) ==
    IF c.linkedin_url # "" THEN "LinkedIn"
    ELSE IF c.email # "" THEN "Email"
    ELSE ""

\* _determine_channel(contact, config).
_determine_channel(c, cfg) ==
    IF c.follow_up_count < cfg.linkedin_followups
    THEN IF c.linkedin_url # "" THEN "LinkedIn"
         ELSE IF c.email # "" THEN "Email"
         ELSE ""
    ELSE IF c.email # "" THEN "Email"
         ELSE IF c.linkedin_url # "" THEN "LinkedIn"
         ELSE ""

\* _get_routing_info(crm, contact, channel): the account id and the source
\* message id (chat id or thread id) of the contact's latest message on the
\* channel, "" when it has none.
_get_routing_info(ms, id, channel) ==
    LET source_value == IF channel = "LinkedIn" THEN LinkedIn ELSE Gmail
        messages_ == get_messages_for_contact(ms, id, "")
        hits == { k \in DOMAIN messages_ :
                    /\ ms[messages_[k]].source = source_value
                    /\ ms[messages_[k]].source_message_id # "" }
        channel_messages == SelectIdx(messages_, hits)
        key == [ k \in DOMAIN channel_messages |->
                   LET m == ms[messages_[channel_messages[k]]]
                   IN IF m.sent_at # 0 THEN m.sent_at ELSE m.received_at ]
        latest == ms[messages_[SortedDesc(channel_messages, key)[1]]]
    IN IF channel_messages = << >>
       THEN [ account_id |-> "", source_message_id |-> "" ]
       ELSE [ account_id |-> IF channel = "LinkedIn" THEN latest.account_id
                             ELSE "",
              source_message_id |-> latest.source_message_id ]

\* _should_auto_approve(crm, contact_id, threshold): the threshold first
\* rows of the sent messages sorted by Sent At, latest first, all have edit
\* distance 0.
_should_auto_approve(ms, id, threshold) ==
    LET messages_ == get_messages_for_contact(ms, id, Outbound)
        sent == SelectIdx(messages_,
                    { k \in DOMAIN messages_ :
                        /\ ms[messages_[k]].status = "Sent"
                        /\ ms[messages_[k]].edit_distance # -1 })
        key == [ k \in DOMAIN sent |-> ms[messages_[sent[k]]].sent_at ]
        sorted == SortedDesc(sent, key)
    IN /\ Len(sent) >= threshold
       /\ \A p \in 1..threshold : ms[messages_[sorted[p]]].edit_distance = 0

\* Calls of one loop iteration at which the model makes the CRM or the
\* drafter raise: in _activate_stale_leads (phase "A") and in
\* _process_due_followups (phase "B").
FUFaultsA == { "inbound", "update" }

FUFaultsB ==
    { "inbound", "pause_update", "pause_audit", "pending", "routing",
      "history", "draft", "approve", "create_message", "exhausted_audit",
      "update_contact", "created_audit" }

\* One cycle's inputs: the phase, the position in its list and the call
\* that raises ("none": no call raises).
FUPlans ==
    { [ phase |-> "none", at |-> 0, fault |-> "none" ] }
    \cup [ phase : { "A" }, at : 1..2, fault : FUFaultsA ]
    \cup [ phase : { "B" }, at : 1..2, fault : FUFaultsB ]

\* The call that raises in iteration i of a phase under the plan.
FUFault(plan, phase, i) ==
    IF plan.phase = phase /\ plan.at = i THEN plan.fault ELSE "none"

\* One iteration of the loop of _activate_stale_leads, for the contact of
\* row id as the list holds it (c).
ActivateLead(w, id, c, fault) ==
    IF fault = "inbound" THEN [ w |-> w, outcome |-> "raised" ]
    ELSE IF _has_recent_inbound(w.messages, id, c.last_outbound_at)
    THEN [ w |-> w, outcome |-> "replied" ]
    ELSE IF fault = "update" THEN [ w |-> w, outcome |-> "raised" ]
    ELSE [ w |-> [w EXCEPT !.contacts =
                     update_contact(@, id,
                         [ follow_up_status |-> "Active",
                           follow_up_count |-> 0,
                           next_follow_up_date |-> w.today,
                           follow_up_channel |->
                               IF c.linkedin_url # "" THEN "LinkedIn"
                               ELSE "Email" ])],
           outcome |-> "activated" ]

\* _activate_stale_leads(crm, config): the loop has no exception handler, a
\* raising call ends it.  Returns the tables, the number activated, whether
\* it raised, the list it read and what it did at each position reached.
_activate_stale_leads(w, cfg, plan) ==
    LET stale == get_stale_contacts(w.contacts, w.today,
                                    cfg.days_before_activation)
        F[i \in 0..Len(stale)] ==
            IF i = 0
            THEN [ w |-> w, activated |-> 0, raised |-> FALSE,
                   stale |-> stale, outcomes |-> << >> ]
            ELSE LET p == F[i - 1]
                     r == ActivateLead(p.w, stale[i], w.contacts[stale[i]],
                                       FUFault(plan, "A", i))
                 IN IF p.raised THEN p
                    ELSE [ w |-> r.w,
                           activated |-> p.activated
                               + (IF r.outcome = "activated" THEN 1 ELSE 0),
                           raised |-> r.outcome = "raised",
                           stale |-> stale,
                           outcomes |-> Append(p.outcomes, r.outcome) ]
    IN F[Len(stale)]

\* The follow-up MessageRecord _process_due_followups builds.
FUMessageRecord(id, channel, routing, status, followup_num) ==
    [ MessageRecord(id, IF channel = "LinkedIn" THEN LinkedIn ELSE Gmail,
                    Outbound, DraftText, status, "", "", 0,
                    routing.account_id, routing.source_message_id)
      EXCEPT !.follow_up_number = followup_num ]

\* An exception inside the try block of the loop of _process_due_followups:
\* logged, and counted as skipped.
FURaised(w, exhausted) ==
    [ w |-> w, outcome |-> "raised", exhausted |-> exhausted ]

\* Mutant of ProcessDue's contact update: the cadence is never closed.
FUContactUpdateNeverExhausts(cfg, followup_num, channel, now) ==
    [ follow_up_count |-> followup_num,
      next_follow_up_date |-> now + cfg.days_between,
      follow_up_channel |-> channel ]

\* update_fields of _process_due_followups: count, next date and channel,
\* and the closing of the cadence with its last follow-up.
FUContactUpdate(cfg, followup_num, channel, now) ==
    [ follow_up_count |-> followup_num,
      next_follow_up_date |-> now + cfg.days_between,
      follow_up_channel |-> channel ]
    @@ Entry(followup_num >= cfg.total_followups,
             [ follow_up_status |-> "Exhausted",
               conversation_stage |-> "Closed Lost" ])

\* The body of the loop of _process_due_followups from the channel logic
\* on, for a contact that has not replied and has nothing pending.
DraftFollowup(w, id, c, cfg, fault) ==
    LET channel == _determine_channel(c, cfg)
        routing == _get_routing_info(w.messages, id, channel)
        followup_num == c.follow_up_count + 1
        auto_approve == _should_auto_approve(w.messages, id,
                                             cfg.auto_approve_threshold)
        status == IF auto_approve THEN "Approved" ELSE "Draft Ready"
        created == create_message(w.messages,
                       FUMessageRecord(id, channel, routing, status,
                                       followup_num))
        exhausted == followup_num >= cfg.total_followups
        w1 == [w EXCEPT !.messages = created.messages]
        w2 == IF exhausted
              THEN [w1 EXCEPT !.audit_log =
                       log_audit(@, AuditLogEntry("follow_up_exhausted",
                                                  id, NoId))]
              ELSE w1
        w3 == [w2 EXCEPT !.contacts =
                  update_contact(@, id,
                      FUContactUpdate(cfg, followup_num, channel, w.today))]
        w4 == [w3 EXCEPT !.audit_log =
                  log_audit(@, AuditLogEntry("follow_up_created", id,
                                             created.id))]
    IN IF channel = "" THEN [ w |-> w, outcome |-> "no_channel",
                              exhausted |-> FALSE ]
       ELSE IF fault \in { "routing", "history", "draft", "approve",
                           "create_message" }
       THEN FURaised(w, FALSE)
       ELSE IF exhausted /\ fault = "exhausted_audit" THEN FURaised(w1, FALSE)
       ELSE IF fault = "update_contact" THEN FURaised(w2, exhausted)
       ELSE IF fault = "created_audit" THEN FURaised(w3, exhausted)
       ELSE [ w |-> w4,
              outcome |-> IF auto_approve THEN "auto_approved" ELSE "drafted",
              exhausted |-> exhausted ]

\* Mutant of PauseCadence: the cadence is left as it is, the pause is
\* audited.
PauseCadenceAuditOnly(w, id, fault) ==
    [ w |-> [w EXCEPT !.audit_log =
                log_audit(@, AuditLogEntry("follow_up_paused", id, NoId))],
      outcome |-> "paused", exhausted |-> FALSE ]

\* The contact replied: crm.update_contact(Follow-Up Status: Paused),
\* crm.log_audit(FOLLOW_UP_PAUSED), continue.
PauseCadence(w, id, fault) ==
    LET w1 == [w EXCEPT !.contacts =
                  update_contact(@, id, [ follow_up_status |-> "Paused" ])]
    IN IF fault = "pause_update" THEN FURaised(w, FALSE)
       ELSE IF fault = "pause_audit" THEN FURaised(w1, FALSE)
       ELSE [ w |-> [w1 EXCEPT !.audit_log =
                        log_audit(@, AuditLogEntry("follow_up_paused",
                                                   id, NoId))],
              outcome |-> "paused", exhausted |-> FALSE ]

\* One iteration of the loop of _process_due_followups, for the contact of
\* row id as the list holds it (c): the reply check, the duplicate check,
\* then the follow-up.
ProcessDue(w, id, c, cfg, fault) ==
    IF c.last_outbound_at # 0 /\ fault = "inbound" THEN FURaised(w, FALSE)
    ELSE IF /\ c.last_outbound_at # 0
            /\ _has_recent_inbound(w.messages, id, c.last_outbound_at)
    THEN PauseCadence(w, id, fault)
    ELSE IF fault = "pending" THEN FURaised(w, FALSE)
    ELSE IF _has_pending_outbound(w.messages, id)
    THEN [ w |-> w, outcome |-> "pending", exhausted |-> FALSE ]
    ELSE DraftFollowup(w, id, c, cfg, fault)

\* stats of _process_due_followups after one more iteration.
FUCount(stats, r) ==
    [ drafted |-> stats.drafted + (IF r.outcome = "drafted" THEN 1 ELSE 0),
      auto_approved |-> stats.auto_approved
          + (IF r.outcome = "auto_approved" THEN 1 ELSE 0),
      paused |-> stats.paused + (IF r.outcome = "paused" THEN 1 ELSE 0),
      exhausted |-> stats.exhausted + (IF r.exhausted THEN 1 ELSE 0),
      skipped |-> stats.skipped
          + (IF r.outcome \in { "pending", "no_channel", "raised" }
             THEN 1 ELSE 0) ]

\* _process_due_followups(crm, api_key, config).  Returns the tables, the
\* stats, the list it read and what it did at each position.
_process_due_followups(w, cfg, plan) ==
    LET due == get_contacts_for_followup(w.contacts, w.today)
        F[i \in 0..Len(due)] ==
            IF i = 0
            THEN [ w |-> w, due |-> due, outcomes |-> << >>,
                   stats |-> [ drafted |-> 0, auto_approved |-> 0,
                               paused |-> 0, exhausted |-> 0, skipped |-> 0 ] ]
            ELSE LET p == F[i - 1]
                     r == ProcessDue(p.w, due[i], w.contacts[due[i]], cfg,
                                     FUFault(plan, "B", i))
                 IN [ w |-> r.w, due |-> due,
                      outcomes |-> Append(p.outcomes, r.outcome),
                      stats |-> FUCount(p.stats, r) ]
    IN F[Len(due)]

\* run_followup_cycle(crm, api_key, config): both phases; an exception of
\* the first leaves the function before the second.
run_followup_cycle(w, cfg, plan) ==
    CHOOSE result \in
        { IF a.raised
          THEN [ w |-> a.w, raised |-> TRUE, stale |-> a.stale,
                 activation |-> a.outcomes, initialized |-> a.activated,
                 due |-> << >>, outcomes |-> << >>, stats |-> EmptyMap ]
          ELSE CHOOSE done \in
                 { [ w |-> b.w, raised |-> FALSE, stale |-> a.stale,
                     activation |-> a.outcomes, initialized |-> a.activated,
                     due |-> b.due, outcomes |-> b.outcomes,
                     stats |-> b.stats ] :
                   b \in { _process_due_followups(a.w, cfg, plan) } } : TRUE :
          a \in { _activate_stale_leads(w, cfg, plan) } } : TRUE

-----------------------------------------------------------------------------
(* Sequential specification of the whole bot with the cadence engine: the   *)
(* pipeline handles the messages the pollers deliver, the reviewer         *)
(* approves drafts, the outbound loop sends, days pass, and                *)
(* run_followup_cycle runs from its call to its return.  frames holds the  *)
(* record of the latest follow-up cycle.                                   *)

MaxDay == 6

\* A short cadence: two follow-ups, the first preferring LinkedIn, a day
\* between them, a lead stale a day after the last outbound.
FollowConfig ==
    [ total_followups |-> 2, linkedin_followups |-> 1, days_between |-> 1,
      days_before_activation |-> 1, auto_approve_threshold |-> 2 ]

\* A later message of M2's sender.
M6 == InboundMessage(LinkedIn, "s5", NameBo, "", "li/bo", NoText, "", 4, "acct")

FollowMsgs == { M2, M6 }

FollowPipelinePlan ==
    [ classification |-> Classification("Hot", "Qualifying", TRUE),
      enrich |-> "none", fault |-> "none" ]

\* The cycle's failing call, if any, is made for the first contact of the
\* list of its phase.
FollowPlans ==
    { plan \in FUPlans :
        /\ plan.at <= 1
        /\ plan.fault \in { "none", "update", "pause_audit",
                            "exhausted_audit", "update_contact" } }

\* The pipeline handles a message the poller delivers for the first time;
\* a message is delivered on the day it was received or later.
FollowReceive(m) ==
    /\ m.received_at <= today
    /\ LedgerStatus(processed_messages, m) = "none"
    /\ Call(m, FollowPipelinePlan, Cardinality(FollowMsgs))

\* The latest invocation recorded in frames is a follow-up cycle.
IsCycleRecord(fs) == fs # << >> /\ "stale" \in DOMAIN fs[1]

\* A day passes; the scheduler has run the follow-up job of the day.
Tick ==
    /\ today < MaxDay
    /\ IsCycleRecord(frames)
    /\ frames[1].day = today
    /\ today' = today + 1
    /\ UNCHANGED << contacts, messages, audit_log, processed_messages,
                    local_audit, sends, learning_log, circuit_breaker,
                    monotonic, ncalls, last, batch, frames >>

\* What is kept of a returned run_followup_cycle: the day it ran, the
\* lists it read, what it did at each position and its stats.
FUReturned(r, now) ==
    [ day |-> now, raised |-> r.raised, stale |-> r.stale,
      activation |-> r.activation, initialized |-> r.initialized,
      due |-> r.due, outcomes |-> r.outcomes, stats |-> r.stats ]

\* run_followup_cycle_job, which the scheduler starts once a day: one
\* invocation of run_followup_cycle, from call to return; an exception it
\* raises is logged by the job.
RunFollowup(cfg, plan) ==
    /\ ~(IsCycleRecord(frames) /\ frames[1].day = today)
    /\ \E r \in { run_followup_cycle(World, cfg, plan) } :
          /\ SetWorld(r.w)
          /\ frames' = << FUReturned(r, today) >>
    /\ UNCHANGED << ncalls, last, batch >>

\* run_outbound_cycle: one invocation of process_approved_messages in which
\* no call fails, from call to return.
FollowSend ==
    /\ SetWorld(process_approved_messages(World,
                     [ at |-> 0, fault |-> "none" ]).w)
    /\ UNCHANGED << ncalls, last, batch, frames >>

NextFollow ==
    \/ \E m \in FollowMsgs : FollowReceive(m)
    \/ \E id \in DOMAIN messages : Approve(id)
    \/ FollowSend
    \/ Tick
    \/ \E plan \in FollowPlans : RunFollowup(FollowConfig, plan)

\* The bot is started on day 2, with nothing in its tables: M2 was
\* received the day before.
InitFollow ==
    /\ contacts = << >>
    /\ messages = << >>
    /\ audit_log = << >>
    /\ processed_messages = {}
    /\ local_audit = << >>
    /\ sends = << >>
    /\ today = 2
    /\ learning_log = << >>
    /\ circuit_breaker = NewCircuitBreaker
    /\ monotonic = 0
    /\ ncalls = 0
    /\ last = NoCall
    /\ batch = NoBatch
    /\ frames = << >>

SpecFollow == InitFollow /\ [][NextFollow]_vars

-----------------------------------------------------------------------------
(* One follow-up cycle over one due contact, for every combination of the  *)
(* contact's count and addresses and of the follow-ups sent to it before.  *)

\* The default cadence cut in half: four follow-ups, the first two
\* preferring LinkedIn.
CadenceConfig ==
    [ total_followups |-> 4, linkedin_followups |-> 2, days_between |-> 1,
      days_before_activation |-> 1, auto_approve_threshold |-> 2 ]

\* A contact in an active cadence, due today (day 3); its count is the
\* number of follow-ups made so far.
CadenceContacts ==
    { [ ContactRecord(NameAnn, email, url, NoText, "", Gmail, 1) EXCEPT
          !.conversation_stage = "Engaging", !.follow_up_status = "Active",
          !.follow_up_count = n, !.next_follow_up_date = 3,
          !.follow_up_channel = "Email", !.last_outbound_at = 2 ] :
        email \in { "", "ann@x" }, url \in { "", "li/ann" },
        n \in 0..(CadenceConfig.total_followups - 1) }

\* The n-th follow-up, sent on a day, with the edit distance recorded for
\* it (-1: none).
SentFollowup(n, day, dist) ==
    [ MessageRecord(1, Gmail, Outbound, DraftText, "Sent", "", "", 0, "", "")
      EXCEPT !.sent_at = day, !.edit_distance = dist, !.follow_up_number = n ]

\* The follow-ups sent to the contact so far, in the order they were
\* created and sent: up to three, on days 1 and 2, at most two of them on
\* the same day (one drafted by the cycle of the day before, one by the
\* cycle of the day).
CadenceHistories ==
    LET Rows == { SentFollowup(n, day, dist) :
                    n \in 1..3, day \in 1..2, dist \in { -1, 0, 250 } }
    IN { h \in UNION { [1..n -> Rows] : n \in 0..3 } :
           /\ \A k \in DOMAIN h : h[k].follow_up_number = k
           /\ \A j, k \in DOMAIN h : j < k => h[j].sent_at <= h[k].sent_at
           /\ \A d \in 1..2 :
                 Cardinality({ k \in DOMAIN h : h[k].sent_at = d }) <= 2 }

InitCadence ==
    /\ contacts \in { << c >> : c \in CadenceContacts }
    /\ messages \in CadenceHistories
    /\ contacts[1].follow_up_count = Len(messages)
    /\ audit_log = << >>
    /\ processed_messages = {}
    /\ local_audit = << >>
    /\ sends = << >>
    /\ today = 3
    /\ learning_log = << >>
    /\ circuit_breaker = NewCircuitBreaker
    /\ monotonic = 0
    /\ ncalls = 0
    /\ last = NoCall
    /\ batch = NoBatch
    /\ frames = << >>

NextCadence ==
    RunFollowup(CadenceConfig, [ phase |-> "none", at |-> 0, fault |-> "none" ])

SpecCadence == InitCadence /\ [][NextCadence]_vars

-----------------------------------------------------------------------------
(* One follow-up cycle over a batch of two contacts, each of them stale or *)
(* due, in which at most one CRM call raises.                              *)

\* The inbound message that opened the conversation with a contact,
\* received on day 1; its reply was sent on day 2.
AnsweredInbound(id, source, smid) ==
    [ MessageRecord(id, source, Inbound, DraftText, "Sent", "Hot",
                    "Engaging", 1, "", smid)
      EXCEPT !.sent_at = 2, !.edit_distance = 0 ]

\* A later message of the contact, received on day 3, its reply drafted.
LaterInbound(id, source, smid) ==
    MessageRecord(id, source, Inbound, DraftText, "Draft Ready", "Hot",
                  "Engaging", 3, "", smid)

\* A contact whose first message was answered on day 2: without a cadence
\* (count -1 here), or in an active cadence with a count, due on day 4.
BatchContact(name, email, url, channel, count) ==
    IF count = -1
    THEN [ ContactRecord(name, email, url, NoText, "", channel, 1) EXCEPT
             !.lead_category = "Hot", !.conversation_stage = "Engaging",
             !.last_outbound_at = 2 ]
    ELSE [ ContactRecord(name, email, url, NoText, "", channel, 1) EXCEPT
             !.lead_category = "Hot", !.conversation_stage = "Engaging",
             !.last_outbound_at = 2, !.follow_up_status = "Active",
             !.follow_up_count = count, !.next_follow_up_date = 4,
             !.follow_up_channel =
                 IF url # "" THEN "LinkedIn" ELSE "Email" ]

InitBatch ==
    /\ \E a, b \in -1..(FollowConfig.total_followups - 1) :
          contacts = << BatchContact(NameAnn, "ann@x", "", Gmail, a),
                        BatchContact(NameBo, "", "li/bo", LinkedIn, b) >>
    /\ \E ra, rb \in BOOLEAN :
          messages = << AnsweredInbound(1, Gmail, "s1"),
                        AnsweredInbound(2, LinkedIn, "s1") >>
                     \o (IF ra THEN << LaterInbound(1, Gmail, "s2") >>
                         ELSE << >>)
                     \o (IF rb THEN << LaterInbound(2, LinkedIn, "s5") >>
                         ELSE << >>)
    /\ audit_log = << >>
    /\ processed_messages = {}
    /\ local_audit = << >>
    /\ sends = << >>
    /\ today = 4
    /\ learning_log = << >>
    /\ circuit_breaker = NewCircuitBreaker
    /\ monotonic = 0
    /\ ncalls = 0
    /\ last = NoCall
    /\ batch = NoBatch
    /\ frames = << >>

NextBatch == \E plan \in FUPlans : RunFollowup(FollowConfig, plan)

SpecBatch == InitBatch /\ [][NextBatch]_vars

-----------------------------------------------------------------------------
(* Self-learning cycle (sdr/ai/learner.py).  cfg is the LearningConfig;    *)
(* plan holds what the model's analysis returns, the order SQLite gives to *)
(* rules created in the same second, and the call that raises, if any.     *)

\* _fetch_edited_messages(days): Status = Sent, Edit Distance > 0.05, an AI
\* draft version, Sent At after the cutoff day.
_fetch_edited_messages(ms, now, days) ==
    SelectIdx(ms, { i \in DOMAIN ms : /\ ms[i].status = "Sent"
                                       /\ ms[i].edit_distance > 50
                                       /\ ms[i].ai_draft_version # NoText
                                       /\ ms[i].sent_at # 0
                                       /\ ms[i].sent_at > now - days })

\* Calls of run_learning_cycle at which the model makes the CRM, the
\* analysis or SQLite raise; "insert" and "deactivate" raise at the
\* plan.at-th call of their loop.
LearnFaults ==
    { "fetch", "analyze", "insert", "cap_read", "deactivate", "audit" }

\* The cycle left by an exception: what was written stays written.
LearnRaised(w, ll) ==
    [ w |-> [w EXCEPT !.learning_log = ll], raised |-> TRUE,
      result |-> EmptyMap ]

\* Mutant of StoredRules: every candidate is stored.
StoredRulesAll(new_rules) == new_rules

\* The candidates of step 4 that are stored: confidence > 0.7.
StoredRules(new_rules) ==
    SelectSeq(new_rules, LAMBDA rule : rule.confidence > 70)

\* SelfLearner.run_learning_cycle(lookback_days, max_active_rules,
\* min_messages).  Returns the state, whether it raised, and its result.
run_learning_cycle(w, cfg, plan) ==
    LET edit_pairs == _fetch_edited_messages(w.messages, w.today,
                                             cfg.lookback_days)
        to_store == StoredRules(plan.rules)
        insert_fails == plan.fault = "insert" /\ plan.at <= Len(to_store)
        stored == IF insert_fails THEN plan.at - 1 ELSE Len(to_store)
        ll1 == w.learning_log
                 \o [ k \in 1..stored |->
                        LearnedRule(to_store[k].rule_text,
                                    to_store[k].confidence, w.today) ]
        all_active == get_active_learned_rules(ll1, plan.ties)
        excess == Len(all_active) - cfg.max_active_rules
        to_deactivate == IF excess > 0 THEN SubSeq(all_active, 1, excess)
                         ELSE << >>
        deactivate_fails == /\ plan.fault = "deactivate"
                            /\ plan.at <= Len(to_deactivate)
        done == IF deactivate_fails THEN plan.at - 1
                ELSE Len(to_deactivate)
        gone == { to_deactivate[k] : k \in 1..done }
        ll2 == [ i \in DOMAIN ll1 |->
                   IF i \in gone
                   THEN deactivate_learned_rule(ll1, i, w.today)[i]
                   ELSE ll1[i] ]
    IN IF plan.fault = "fetch" THEN LearnRaised(w, w.learning_log)
       ELSE IF Len(edit_pairs) < cfg.min_messages_for_analysis
       THEN [ w |-> w, raised |-> FALSE,
              result |-> [ messages_analyzed |-> 0, new_rules |-> 0,
                           skipped_reason |-> "insufficient_data" ] ]
       ELSE IF plan.fault = "analyze" THEN LearnRaised(w, w.learning_log)
       ELSE IF insert_fails \/ plan.fault = "cap_read"
       THEN LearnRaised(w, ll1)
       ELSE IF deactivate_fails \/ plan.fault = "audit"
       THEN LearnRaised(w, ll2)
       ELSE [ w |-> [w EXCEPT !.learning_log = ll2,
                              !.local_audit =
                                  log_local_audit(@, "learning_cycle",
                                                  NoId, NoId)],
              raised |-> FALSE,
              result |-> [ messages_analyzed |-> Len(edit_pairs),
                           new_rules |-> stored,
                           skipped_reason |-> "" ] ]

-----------------------------------------------------------------------------
(* The learning job, once a day, over the messages sent so far.            *)

MaxLearnDay == 4

\* Two rules at most, two edited messages needed, a window of two days.
LearnConfig ==
    [ lookback_days |-> 2, max_active_rules |-> 2,
      min_messages_for_analysis |-> 2 ]

\* Sent replies: what the drafter wrote or nothing of it, the day sent,
\* the edit distance recorded.
LearnRows ==
    << [ SentFollowup(0, 1, 250) EXCEPT !.draft_reply = EditedText ],
       [ SentFollowup(0, 2, 250) EXCEPT !.draft_reply = EditedText ],
       [ SentFollowup(0, 2, 40) EXCEPT !.draft_reply = EditedText ],
       [ SentFollowup(0, 2, 250) EXCEPT !.ai_draft_version = NoText ],
       SentFollowup(0, 2, 0) >>

\* The Messages table: up to three of these rows, in the order above.
LearnHistories ==
    { [ k \in DOMAIN pick |-> LearnRows[pick[k]] ] :
        pick \in { p \in UNION { [1..n -> DOMAIN LearnRows] : n \in 0..3 } :
                     \A j, k \in DOMAIN p : j < k => p[j] <= p[k] } }

\* What the analysis returns: up to two candidate rules.
Candidates ==
    UNION { [1..n -> [ rule_text : { "rule" }, confidence : { 70, 71 } ]] :
              n \in 0..2 }

\* Any candidates and either order of ties when nothing raises; one
\* raising call, with two candidates that are stored.
LearnPlans ==
    [ rules : Candidates, ties : { "rowid", "reverse" }, fault : { "none" },
      at : { 0 } ]
    \cup [ rules : { r \in Candidates : Len(StoredRules(r)) = 2 },
           ties : { "rowid" }, fault : LearnFaults, at : 1..2 ]

InitLearn ==
    /\ contacts = << ContactRecord(NameAnn, "ann@x", "", NoText, "", Gmail, 1) >>
    /\ messages \in LearnHistories
    /\ audit_log = << >>
    /\ processed_messages = {}
    /\ local_audit = << >>
    /\ sends = << >>
    /\ today = 2
    /\ learning_log = << >>
    /\ circuit_breaker = NewCircuitBreaker
    /\ monotonic = 0
    /\ ncalls = 0
    /\ last = NoCall
    /\ batch = NoBatch
    /\ frames = << >>

\* The latest invocation recorded in frames is a learning cycle.
IsLearnRecord(fs) == fs # << >> /\ "skipped_reason" \in DOMAIN fs[1]

\* run_learning_cycle_job, which the scheduler starts once a day: one
\* invocation of run_learning_cycle; an exception it raises is logged.
RunLearning(cfg, plan) ==
    /\ ~(IsLearnRecord(frames) /\ frames[1].day = today)
    /\ \E r \in { run_learning_cycle(World, cfg, plan) } :
          /\ SetWorld(r.w)
          /\ frames' = << [ day |-> today, raised |-> r.raised,
                            skipped_reason |->
                                IF r.raised THEN "raised"
                                ELSE r.result.skipped_reason,
                            result |-> r.result ] >>
    /\ UNCHANGED << ncalls, last, batch >>

\* A day passes; the scheduler has run the learning job of the day.
LearnTick ==
    /\ today < MaxLearnDay
    /\ IsLearnRecord(frames)
    /\ frames[1].day = today
    /\ today' = today + 1
    /\ UNCHANGED << contacts, messages, audit_log, processed_messages,
                    local_audit, sends, learning_log, circuit_breaker,
                    monotonic, ncalls, last, batch, frames >>

NextLearn ==
    \/ \E plan \in LearnPlans : RunLearning(LearnConfig, plan)
    \/ LearnTick

SpecLearn == InitLearn /\ [][NextLearn]_vars

-----------------------------------------------------------------------------
(* The idempotency ledger on its own: any sequence of                      *)
(* mark_message_processed and mark_message_failed calls over two keys that *)
(* share a source_message_id across channels.                              *)

MaxAttempts == 3

LedgerKeys == { << "Gmail", "s1" >>, << "LinkedIn", "s1" >> }

\* db.mark_message_processed(source, source_message_id, status,
\* airtable_message_id, airtable_contact_id); frames keeps the call.
MarkProcessed(key, status, message_id, contact_id) ==
    /\ processed_messages' =
          mark_message_processed(processed_messages, key[1], key[2], status,
                                 message_id, contact_id)
    /\ frames' = << [ op |-> "mark_message_processed", key |-> key,
                      status |-> status, message_id |-> message_id,
                      contact_id |-> contact_id, error |-> "" ] >>
    /\ UNCHANGED << contacts, messages, audit_log, local_audit, sends, today,
                    learning_log, circuit_breaker, monotonic, ncalls, last,
                    batch >>

\* db.mark_message_failed(source, source_message_id, error).
MarkFailed(key, error) ==
    /\ \A r \in LedgerRows(processed_messages, key[1], key[2]) :
          r.attempts < MaxAttempts
    /\ processed_messages' =
          mark_message_failed(processed_messages, key[1], key[2], error)
    /\ frames' = << [ op |-> "mark_message_failed", key |-> key,
                      status |-> "failed", message_id |-> NoId,
                      contact_id |-> NoId, error |-> error ] >>
    /\ UNCHANGED << contacts, messages, audit_log, local_audit, sends, today,
                    learning_log, circuit_breaker, monotonic, ncalls, last,
                    batch >>

NextLedger ==
    \/ \E key \in LedgerKeys, status \in { "processed", "skipped" },
          message_id \in { NoId, 1, 2 }, contact_id \in { NoId, 1 } :
          MarkProcessed(key, status, message_id, contact_id)
    \/ \E key \in LedgerKeys, error \in { "e1", "e2" } : MarkFailed(key, error)

SpecLedger == Init /\ [][NextLedger]_vars

-----------------------------------------------------------------------------
(* run_inbound_cycle (sdr/main.py) with its circuit breaker: both sources  *)
(* are configured; plan says, for each source, whether its try block       *)
(* (poll, then process_batch) returns ("ok") or raises ("raise").          *)

MaxClock == 5

PollSources == << "gmail", "linkedin" >>

\* A breaker that opens at the second failure in a row, for two ticks.
BreakerConfig ==
    [ circuit_breaker_threshold |-> 2, circuit_breaker_cooldown_seconds |-> 2 ]

\* One `if source and not circuit_breaker.is_open(name): try: ... except`
\* block of run_inbound_cycle.
PollSource(cb, cfg, source, now, outcome) ==
    LET q == is_open(cb, source, now)
    IN IF q.open THEN [ cb |-> q.cb, polled |-> FALSE ]
       ELSE [ cb |-> IF outcome = "ok" THEN record_success(q.cb, source)
                     ELSE record_failure(q.cb, cfg, source, now),
              polled |-> TRUE ]

\* run_inbound_cycle(components, circuit_breaker): Gmail, then LinkedIn.
run_inbound_cycle(cb, cfg, now, plan) ==
    LET g == PollSource(cb, cfg, PollSources[1], now, plan.gmail)
        l == PollSource(g.cb, cfg, PollSources[2], now, plan.linkedin)
    IN [ cb |-> l.cb,
         polled |-> [ gmail |-> g.polled, linkedin |-> l.polled ] ]

\* History: the failures of a source in a row so far, counted from the
\* outcomes of the cycles: a cycle that did not poll the source leaves it,
\* a success ends the row, a failure adds to it, and a row that opened the
\* breaker ends when its cooldown has passed.
Streak(fs, source) ==
    IF fs = << >> \/ "streak" \notin DOMAIN fs[1] THEN 0
    ELSE fs[1].streak[source]

StreakAfter(fs, source, polled, outcome, expired) ==
    IF ~polled THEN Streak(fs, source)
    ELSE IF outcome = "ok" THEN 0
    ELSE IF expired THEN 1
    ELSE Streak(fs, source) + 1

\* One scheduled run of run_inbound_cycle; frames keeps when it ran, what
\* it polled, the outcomes and the history.
RunInbound(cfg, plan) ==
    \E r \in { run_inbound_cycle(circuit_breaker, cfg, monotonic, plan) } :
       /\ circuit_breaker' = r.cb
       /\ frames' =
             << [ at |-> monotonic, polled |-> r.polled, plan |-> plan,
                  streak |->
                     [ source \in { PollSources[1], PollSources[2] } |->
                         StreakAfter(frames, source, r.polled[source],
                             plan[source],
                             /\ source \in DOMAIN circuit_breaker._open_until
                             /\ monotonic
                                  >= circuit_breaker._open_until[source]) ] ] >>
       /\ UNCHANGED << contacts, messages, audit_log, processed_messages,
                       local_audit, sends, today, learning_log, monotonic,
                       ncalls, last, batch >>

\* Time passes.
ClockTick ==
    /\ monotonic < MaxClock
    /\ monotonic' = monotonic + 1
    /\ UNCHANGED << contacts, messages, audit_log, processed_messages,
                    local_audit, sends, today, learning_log, circuit_breaker,
                    ncalls, last, batch, frames >>

NextBreaker ==
    \/ \E plan \in [ gmail : { "ok", "raise" }, linkedin : { "ok", "raise" } ] :
          RunInbound(BreakerConfig, plan)
    \/ ClockTick

SpecBreaker == Init /\ [][NextBreaker]_vars

-----------------------------------------------------------------------------
(* compute_edit_distance on its own, for every pair of texts of up to      *)
(* MaxTextLen characters over three letters.                               *)

MaxTextLen == 3

Texts == UNION { [1..n -> { "h", "i", "o" }] : n \in 0..MaxTextLen }

InitEdit ==
    /\ contacts = << >>
    /\ messages = << >>
    /\ audit_log = << >>
    /\ processed_messages = {}
    /\ local_audit = << >>
    /\ sends = << >>
    /\ today = 1
    /\ learning_log = << >>
    /\ circuit_breaker = NewCircuitBreaker
    /\ monotonic = 0
    /\ ncalls = 0
    /\ last = NoCall
    /\ batch = NoBatch
    /\ frames \in { << [ original |-> a, edited |-> b ] >> :
                     a \in Texts, b \in Texts }

\* compute_edit_distance(original, edited) is called and returns.
ComputeEditDistance ==
    /\ "distance" \notin DOMAIN frames[1]
    /\ frames' = << [ original |-> frames[1].original,
                      edited |-> frames[1].edited,
                      distance |-> compute_edit_distance(frames[1].original,
                                                         frames[1].edited) ] >>
    /\ UNCHANGED << contacts, messages, audit_log, processed_messages,
                    local_audit, sends, today, learning_log, circuit_breaker,
                    monotonic, ncalls, last, batch >>

SpecEdit == InitEdit /\ [][ComputeEditDistance]_vars

-----------------------------------------------------------------------------
(* Properties of the inbound pipeline.                                     *)

\* The inbound Message rows of message m: same channel and same source id.
RowsFor(ms, m) ==
    { i \in 1..Len(ms) : /\ ms[i].direction = Inbound
                         /\ ms[i].source = m.source
                         /\ ms[i].source_message_id = m.source_message_id }

\* A step that is a completed process_message invocation.
IsCall == ncalls' = ncalls + 1

\* C1: when process_message(m) already completed successfully (the ledger
\* holds m's key as processed), a further process_message(m) returns None,
\* writes nothing to the CRM, and exactly one Message row exists for m.
C1_SecondCallIsNoOp ==
    [][ (IsCall /\ last'.prior = "processed") =>
           /\ last'.result = NoId
           /\ contacts' = contacts
           /\ messages' = messages
           /\ audit_log' = audit_log
           /\ Cardinality(RowsFor(messages', last'.message)) = 1 ]_vars

\* C2: a retry of process_message(m) after a failed attempt, with every
\* collaborator succeeding, completes the pipeline: one Message row for m,
\* the contact carries the classification, the ledger says processed.
C2_RetryCompletes ==
    (last.op # "none" /\ last.prior = "failed" /\ last.clean) =>
        /\ LedgerStatus(processed_messages, last.message) = "processed"
        /\ Cardinality(RowsFor(messages, last.message)) = 1
        /\ \A i \in RowsFor(messages, last.message) :
               contacts[messages[i].contact_id].lead_category = last.category

\* C6: every message whose processing succeeded has exactly one inbound
\* Message row of its own (source, source_message_id).
C6_OneRowPerSourceKey ==
    \A m \in Msgs :
        LedgerStatus(processed_messages, m) = "processed" =>
            Cardinality(RowsFor(messages, m)) = 1

\* The calls C7 is about: the classifier, the drafter and the CRM writes.
CRMWriteSteps ==
    { "merge_update", "merge_audit", "upsert_contact", "create_audit",
      "enrich_update", "enrich_audit", "create_message", "update_contact",
      "audit_received", "audit_classified", "audit_draft" }

\* The ledger row of m says failed, with the given error text.
LedgerFailedWith(pm, m, error) ==
    /\ LedgerRows(pm, m.source, m.source_message_id) # {}
    /\ \A r \in LedgerRows(pm, m.source, m.source_message_id) :
           r.status = "failed" /\ r.error = error

\* What C7 promises of an invocation in which the step `last.raised` threw.
FailedPath ==
    /\ last'.outcome = "failed"
    /\ last'.result = NoId
    /\ LedgerFailedWith(processed_messages', last'.message, last'.raised)
    /\ last'.raised \in { "classify", "draft" } => messages' = messages

\* C7 as stated: whenever classification, drafting or any CRM write throws,
\* process_message returns None with the ledger entry failed.
C7_AnyThrowIsRecorded ==
    [][ (IsCall /\ last'.raised \in { "classify", "draft" } \cup CRMWriteSteps)
           => FailedPath ]_vars

\* C7 as amended: the same, for every CRM write except the write-back of
\* the enrichment step, whose exceptions _enrich_contact swallows.
C7_ThrowOutsideEnrichmentIsRecorded ==
    [][ (IsCall /\ last'.raised \in ({ "classify", "draft" } \cup CRMWriteSteps)
                                     \ { "enrich_update", "enrich_audit" })
           => FailedPath ]_vars

C7_Witness ==
    /\ last.raised = "draft"
    /\ last.outcome = "failed"
    /\ last.result = NoId
    /\ LedgerFailedWith(processed_messages, last.message, "draft")
    /\ RowsFor(messages, last.message) = {}

\* C8: an exception of mark_message_processed leaves process_message as an
\* exception, not as a None return.
C8_LedgerFailurePropagates ==
    last.raised = "mark_processed" => last.outcome = "raised"

\* C9: process_batch calls process_message for every message of its list,
\* and total = len(messages) = processed + skipped + failed on return.
C9_BatchAttemptsAll ==
    batch.active =>
        /\ batch.stats.total = Len(batch.msgs)
        /\ batch.attempted = batch.i - 1
        /\ batch.attempted
             = batch.stats.processed + batch.stats.skipped + batch.stats.failed
        /\ batch.i <= Len(batch.msgs) + 1
        /\ batch.i > Len(batch.msgs) => batch.attempted = Len(batch.msgs)

C9_Witness ==
    /\ batch.active
    /\ batch.i > Len(batch.msgs)
    /\ Len(batch.msgs) = 2
    /\ batch.outcomes[1] = "failed"
    /\ batch.outcomes[2] = "processed"

\* C10: a message whose process_message call failed is counted as failed,
\* and only messages already in the ledger before the call as skipped.
C10_FailedCountedAsFailed ==
    last.op = "process_batch" =>
        /\ last.outcome = "failed" => last.counted = "failed"
        /\ last.counted = "skipped" => last.prior # "none"

-----------------------------------------------------------------------------
(* Properties under concurrency, and of the outbound loop.                 *)

\* C3: after two overlapping process_message calls on the same inbound
\* message have both returned, exactly one Message row exists for it.
C3_RaceLeavesOneRow ==
    \A p, q \in DOMAIN frames :
        (/\ p # q
         /\ frames[p].message = frames[q].message
         /\ frames[p].pc = "done"
         /\ frames[q].pc = "done")
        => Cardinality(RowsFor(messages, frames[p].message)) = 1

\* The number of sender.send invocations made for message id.
SendCount(id) == Cardinality({ k \in DOMAIN sends : sends[k].msg_id = id })

\* C4: whatever the interleaving of two invocations of
\* process_approved_messages, sender.send is invoked at most once for a
\* message.
C4_AtMostOneSend ==
    \A id \in DOMAIN messages : SendCount(id) <= 1

\* C5: sender.send is invoked only for a message whose re-fetched status
\* was Approved, and a message skipped at the re-check is neither sent nor
\* written by that invocation.
C5_SendOnlyIfStillApproved ==
    /\ \A k \in DOMAIN sends : sends[k].status = "Approved"
    /\ \A p \in DOMAIN frames :
           /\ frames[p].skipped \cap frames[p].written = {}
           /\ frames[p].skipped \cap frames[p].sent = {}
           /\ frames[p].pc \in { "get_contact", "send" }
                => frames[p].current.status = "Approved"

\* An invocation listed a message, found it no longer Approved at the
\* re-check (the reviewer rejected it meanwhile), skipped it, and returned.
C5_Witness ==
    \E p \in DOMAIN frames :
        /\ frames[p].pc = "done"
        /\ frames[p].plan.fault = "none"
        /\ frames[p].skipped # {}
        /\ \A id \in frames[p].skipped : messages[id].status = "Rejected"
        /\ sends = << >>

-----------------------------------------------------------------------------
(* Properties of the outbound loop run sequentially (SpecOutbound).        *)

\* A step that is a completed invocation of process_approved_messages.
IsRun == frames' # frames

\* The frame the invocation of this step returned with.
Returned == frames'[1]

\* The message at which the invocation's failing call was made, NoId when
\* no call of the invocation failed.
FaultedId(f) ==
    IF f.plan.at \in DOMAIN f.approved /\ f.plan.fault # "none"
    THEN f.approved[f.plan.at] ELSE NoId

\* The sender.send invocations made for message id, as positions of ss.
SendsOf(ss, id) == { k \in DOMAIN ss : ss[k].msg_id = id }

\* A message that is Failed keeps its row and is not sent again.
FailedStaysFailed ==
    \A id \in DOMAIN messages :
        messages[id].status = "Failed" =>
            /\ messages'[id] = messages[id]
            /\ SendsOf(sends', id) = SendsOf(sends, id)

Unsendable(ms, cs, id) ==
    \/ ms[id].draft_reply = NoText
    \/ /\ ms[id].source = Gmail
       /\ \/ ms[id].contact_id = NoId
          \/ cs[ms[id].contact_id].email = ""

\* C12: an Approved message without draft text, or a Gmail message whose
\* contact has no email address, that passes the re-check ends Failed with
\* a reason, is not sent, and is not listed by a later invocation.
C12_UnsendableIsFailed ==
    [][ IsRun =>
          /\ \A k \in DOMAIN Returned.approved :
                 messages[Returned.approved[k]].status = "Approved"
          /\ \A k \in DOMAIN Returned.approved :
                 LET id == Returned.approved[k]
                 IN (Unsendable(messages, contacts, id)
                       /\ id \notin Returned.skipped)
                    => /\ messages'[id].status = "Failed"
                       /\ messages'[id].send_error # ""
                       /\ id \notin Returned.sent
                       /\ SendsOf(sends', id) = SendsOf(sends, id) ]_vars

\* One invocation failed a message without draft text and a Gmail message
\* without recipient, and a later invocation found nothing to send.
C12_Witness ==
    /\ Len(frames) = 1
    /\ \E a, b \in DOMAIN messages :
          /\ messages[a].send_error = "Draft reply is empty"
          /\ messages[b].send_error
                = "No recipient email found on linked contact"
    /\ frames[1].approved = << >>
    /\ sends = << >>

\* What C13 promises of a message the invocation sent.
SentEffects(id) ==
    LET cid == messages[id].contact_id
    IN /\ messages'[id].status = "Sent"
       /\ messages'[id].sent_at # 0
       /\ contacts'[cid].last_outbound_at # 0
       /\ contacts'[cid].conversation_stage
            = IF contacts[cid].conversation_stage = "New" THEN "Engaging"
              ELSE contacts[cid].conversation_stage

-----------------------------------------------------------------------------
(* Properties of what the inbound pipeline persists.                       *)

\* A step that is a process_message invocation which got past the
\* idempotency check and returned a Message row id.
IsProcessed == IsCall /\ last'.outcome = "processed"

\* C14: the Message process_message persisted has status Draft Ready and
\* draft_reply = ai_draft_version = the drafter's text exactly when the
\* classification has should_reply; otherwise the drafter is not invoked
\* and the Message has status New and an empty draft_reply.
C14_DraftReadyIffShouldReply ==
    [][ IsProcessed =>
          LET row == messages'[last'.result]
          IN /\ last'.drafter_called = last'.should_reply
             /\ row.source = last'.message.source
             /\ row.status = IF last'.should_reply THEN "Draft Ready"
                                                   ELSE "New"
             /\ row.draft_reply = IF last'.should_reply THEN DraftText
                                                        ELSE NoText
             /\ row.ai_draft_version = row.draft_reply ]_vars

\* C15: when the enrichment adapter raises, the classifier is called with
\* empty enrichment text, a Message row of the message is persisted and the
\* ledger says processed, not failed.
C15_EnrichmentFailureIsAbsorbed ==
    [][ (IsCall /\ last'.prior = "none" /\ last'.enrich = "raise") =>
          /\ last'.classified_with = ""
          /\ last'.outcome = "processed"
          /\ LedgerStatus(processed_messages', last'.message) = "processed"
          /\ Cardinality(RowsFor(messages', last'.message)) = 1 ]_vars

\* The contact row as the merge step of this invocation leaves it.
Merged(cs, id, m) == merge_contact_data(cs[id], m) @@ cs[id]

\* C16: a hoisted field (Title, Company, LinkedIn URL, Email) that is
\* non-empty on the CRM contact when enrichment writes back, be it from
\* before the invocation or from its merge step, keeps its value.
C16_EnrichmentFillsOnlyEmpty ==
    [][ (IsCall /\ last'.prior = "none"
           /\ last'.contact_id \in DOMAIN contacts) =>
          LET id == last'.contact_id
              before == Merged(contacts, id, last'.message)
              after == contacts'[id]
          IN /\ before.title # "" => after.title = before.title
             /\ before.company # NoText => after.company = before.company
             /\ before.linkedin_url # ""
                  => after.linkedin_url = before.linkedin_url
             /\ before.email # "" => after.email = before.email ]_vars

-----------------------------------------------------------------------------
(* Properties of contact resolution (SpecDedup).                           *)

\* A step in which process_message resolved the sender of its message.
IsResolve == IsCall /\ last'.prior = "none"

\* The rows of the contacts whose column holds the value.
WithEmail(cs, email) == { i \in DOMAIN cs : email # "" /\ cs[i].email = email }
WithUrl(cs, url) == { i \in DOMAIN cs : url # "" /\ cs[i].linkedin_url = url }

\* The first row of a non-empty set of rows.
First(rows) == CHOOSE i \in rows : \A j \in rows : i <= j

\* C17: a message whose email matches a contact resolves to that contact
\* after the email lookup alone, whatever its profile URL and name match;
\* without an email hit, a profile URL hit wins and no name lookup is made.
C17_EmailThenUrlThenName ==
    [][ IsResolve =>
          LET m == last'.message
              byEmail == WithEmail(contacts, m.sender_email)
              byUrl == WithUrl(contacts, m.sender_linkedin_url)
          IN /\ byEmail # {} =>
                   /\ last'.contact_id = First(byEmail)
                   /\ last'.lookups = << "email" >>
             /\ (byEmail = {} /\ byUrl # {}) =>
                   /\ last'.contact_id = First(byUrl)
                   /\ last'.lookups[Len(last'.lookups)] = "linkedin_url" ]_vars

\* Message k1 carries the email of one contact and the profile URL of another, and
\* was resolved to the contact of the email.
C17_Witness ==
    /\ last.message.source_message_id = "k1"
    /\ last.prior = "none"
    /\ last.lookups = << "email" >>
    /\ contacts[last.contact_id].email = "ann@x"
    /\ contacts[last.contact_id].name = NameAnn
    /\ \E b \in DOMAIN contacts :
          /\ b # last.contact_id
          /\ contacts[b].name = NameBo
          /\ contacts[b].linkedin_url = "li/bo"

\* C18: a message from sender "Unknown" without email or profile URL hit is
\* resolved to no existing contact and without a name lookup: the pipeline
\* creates a new contact for it.
C18_UnknownNeverMerges ==
    [][ (/\ IsResolve
         /\ last'.message.sender_name = Unknown
         /\ WithEmail(contacts, last'.message.sender_email) = {}
         /\ WithUrl(contacts, last'.message.sender_linkedin_url) = {})
        => /\ \A k \in DOMAIN last'.lookups : last'.lookups[k] # "name"
           /\ Len(contacts') = Len(contacts) + 1
           /\ last'.contact_id = Len(contacts')
           /\ \A i \in DOMAIN contacts : contacts'[i] = contacts[i] ]_vars

\* Two messages from "Unknown" were processed and two contacts of that
\* name exist.
C18_Witness ==
    /\ last.message.source_message_id = "u2"
    /\ last.prior = "none"
    /\ \E a \in DOMAIN contacts :
          /\ a # last.contact_id
          /\ contacts[a].name = Unknown
          /\ contacts[last.contact_id].name = Unknown

\* The contacts whose name contains the name, compared in lower case.
NameCandidates(cs, name) ==
    { i \in DOMAIN cs : Contains(Lower(cs[i].name), Lower(name)) }

\* The candidates whose company is the company, compared in lower case.
CompanyMatches(cs, rows, company) ==
    { i \in rows : /\ company # NoText
                   /\ cs[i].company # NoText
                   /\ Lower(cs[i].company) = Lower(company) }

\* C19: with several name candidates (and no email or profile URL hit) the
\* message resolves to a candidate only when exactly one candidate has the
\* message's company; otherwise it resolves to no contact, and a new one is
\* created.
C19_AmbiguousNameNeedsOneCompany ==
    [][ IsResolve =>
          LET m == last'.message
              rows == NameCandidates(contacts, m.sender_name)
              same == CompanyMatches(contacts, rows, m.sender_company)
          IN (/\ WithEmail(contacts, m.sender_email) = {}
              /\ WithUrl(contacts, m.sender_linkedin_url) = {}
              /\ m.sender_name # Unknown
              /\ Cardinality(rows) > 1)
             => IF Cardinality(same) = 1
                THEN last'.contact_id \in same
                ELSE last'.contact_id = Len(contacts) + 1 ]_vars

-----------------------------------------------------------------------------
(* Properties of merge_contact_data (SpecMerge).                           *)

\* C20: the update map of merge_contact_data has no entry for Email,
\* LinkedIn URL, Company or Title when the existing contact has that field
\* non-empty, so the field keeps its value in the CRM.
C20_MergeNeverOverwrites ==
    [][ IsCall =>
          LET existing == contacts[1]
              updates == frames'[1].updates
          IN /\ existing.email # "" =>
                   /\ "email" \notin DOMAIN updates
                   /\ contacts'[1].email = existing.email
             /\ existing.linkedin_url # "" =>
                   /\ "linkedin_url" \notin DOMAIN updates
                   /\ contacts'[1].linkedin_url = existing.linkedin_url
             /\ existing.company # NoText =>
                   /\ "company" \notin DOMAIN updates
                   /\ contacts'[1].company = existing.company
             /\ existing.title # "" =>
                   /\ "title" \notin DOMAIN updates
                   /\ contacts'[1].title = existing.title ]_vars

\* A contact with an email and no profile URL was merged with a message
\* carrying another email and a profile URL: the URL was filled in, the
\* email kept.
C20_Witness ==
    /\ frames # << >>
    /\ frames[1].existing.email = "ann@x"
    /\ frames[1].existing.linkedin_url = ""
    /\ frames[1].message.sender_email = "new@x"
    /\ frames[1].message.sender_linkedin_url = "li/new"
    /\ "linkedin_url" \in DOMAIN frames[1].updates
    /\ "email" \notin DOMAIN frames[1].updates
    /\ contacts[1].email = "ann@x"
    /\ contacts[1].linkedin_url = "li/new"

\* C21: the update map of merge_contact_data always carries Interaction
\* Count = existing count + 1 and Last Contact = the message's received
\* date, and carries Source Channel (= Both) exactly when the existing
\* channel is Gmail or LinkedIn and differs from the message's channel.
C21_MergeCountsAndPromotes ==
    [][ IsCall =>
          LET existing == contacts[1]
              m == frames'[1].message
              updates == frames'[1].updates
              cross == /\ existing.source_channel \in { Gmail, LinkedIn }
                       /\ existing.source_channel # m.source
          IN /\ "interaction_count" \in DOMAIN updates
             /\ updates.interaction_count = existing.interaction_count + 1
             /\ contacts'[1].interaction_count = existing.interaction_count + 1
             /\ "last_contact" \in DOMAIN updates
             /\ updates.last_contact = m.received_at
             /\ contacts'[1].last_contact = m.received_at
             /\ ("source_channel" \in DOMAIN updates) <=> cross
             /\ cross => updates.source_channel = Both
             /\ contacts'[1].source_channel =
                    IF cross THEN Both ELSE existing.source_channel ]_vars

\* A Gmail contact was merged with a LinkedIn message and then with a Gmail
\* message: the first merge promoted it to Both, the second left the
\* channel out of the update map and counted the third interaction.
C21_Witness ==
    /\ frames # << >>
    /\ ncalls = 2
    /\ frames[1].existing.source_channel = Both
    /\ frames[1].existing.interaction_count = 2
    /\ frames[1].message.source = Gmail
    /\ "source_channel" \notin DOMAIN frames[1].updates
    /\ contacts[1].source_channel = Both
    /\ contacts[1].interaction_count = 3
    /\ contacts[1].last_contact = 2

-----------------------------------------------------------------------------
(* Properties of the follow-up cadence engine (SpecFollow, SpecCadence).   *)

\* The step is an invocation of run_followup_cycle; Cycle is its record.
IsCycle == IsCycleRecord(frames') /\ frames' # frames

Cycle == frames'[1]

\* The cadence columns of a contact row.
Cadence(c) ==
    << c.follow_up_status, c.follow_up_count, c.next_follow_up_date,
       c.follow_up_channel >>

\* The outbound Message rows of a contact.
OutboundRows(ms, id) ==
    { i \in DOMAIN ms : ms[i].contact_id = id /\ ms[i].direction = Outbound }

\* The contact meets the criteria of get_stale_contacts on the given day.
IsStale(c, now, cfg) ==
    /\ c.conversation_stage \in { "Engaging", "Qualifying", "Follow Up" }
    /\ c.follow_up_status = ""
    /\ c.lead_category # "Not a Lead"
    /\ c.last_outbound_at # 0
    /\ c.last_outbound_at < now - cfg.days_before_activation

\* No inbound message of the contact arrived since its last outbound: each
\* was received on an earlier day, or is the very message whose reply was
\* sent (its row has status Sent), and so preceded that outbound.
NoInboundSince(ms, cs, id) ==
    \A i \in DOMAIN ms :
        (ms[i].contact_id = id /\ ms[i].direction = Inbound)
        => \/ ms[i].received_at < cs[id].last_outbound_at
           \/ ms[i].status = "Sent"

\* C22: a cycle whose first phase raises nothing sets every stale contact
\* without an inbound message since its last outbound to Active (and, due
\* at once, the second phase may already have acted on it), and no contact
\* that has a cadence status or fails the criteria is activated or reset.
C22_StaleLeadsAreActivated ==
    [][ (IsCycle /\ ~Cycle.raised) =>
          \A id \in DOMAIN contacts :
             /\ (/\ IsStale(contacts[id], today, FollowConfig)
                 /\ NoInboundSince(messages, contacts, id))
                => /\ contacts'[id].follow_up_status
                         \in { "Active", "Exhausted" }
                   /\ contacts'[id].follow_up_channel # ""
             /\ (/\ ~IsStale(contacts[id], today, FollowConfig)
                 /\ contacts[id].follow_up_status = "")
                => Cadence(contacts'[id]) = Cadence(contacts[id])
             /\ contacts[id].follow_up_status \in { "Paused", "Exhausted" }
                => Cadence(contacts'[id]) = Cadence(contacts[id])
             /\ contacts[id].follow_up_status = "Active"
                => contacts'[id].follow_up_count
                      >= contacts[id].follow_up_count ]_vars

\* The contact is in an active cadence and due on the given day.
IsDue(c, now) ==
    /\ c.follow_up_status = "Active"
    /\ c.next_follow_up_date # 0
    /\ c.next_follow_up_date <= now

\* A message of the contact was received on the day of its last outbound
\* or later.
RepliedSince(ms, cs, id) ==
    /\ cs[id].last_outbound_at # 0
    /\ \E i \in DOMAIN ms : /\ ms[i].contact_id = id
                              /\ ms[i].direction = Inbound
                              /\ ms[i].received_at >= cs[id].last_outbound_at

\* What the second phase of the cycle did for a contact of its list.
OutcomeOf(id) ==
    Cycle.outcomes[CHOOSE k \in DOMAIN Cycle.due : Cycle.due[k] = id]

\* The audit entries of an action about a contact.
Audited(al, action, id) ==
    { k \in DOMAIN al : al[k].action = action /\ al[k].contact_id = id }

\* C23: a cycle in which no call made for the contact raises sets a due
\* Active contact with an inbound message since its last outbound to
\* Paused, writes a follow_up_paused audit entry for it, creates no message
\* for it and leaves its follow-up count and next-due date as they were.
C23_ReplyPausesCadence ==
    [][ IsCycle =>
          \A id \in DOMAIN contacts :
             (/\ IsDue(contacts[id], today)
              /\ RepliedSince(messages, contacts, id)
              /\ ~Cycle.raised
              /\ OutcomeOf(id) # "raised")
             => /\ contacts'[id].follow_up_status = "Paused"
                /\ Audited(audit_log', "follow_up_paused", id)
                      # Audited(audit_log, "follow_up_paused", id)
                /\ OutboundRows(messages', id) = OutboundRows(messages, id)
                /\ contacts'[id].follow_up_count
                      = contacts[id].follow_up_count
                /\ contacts'[id].next_follow_up_date
                      = contacts[id].next_follow_up_date ]_vars

\* A cycle paused the cadence of a contact that had received a follow-up
\* and answered it.
C23_Witness ==
    /\ IsCycleRecord(frames)
    /\ frames[1].day = today
    /\ \E k \in DOMAIN frames[1].due :
          /\ frames[1].outcomes[k] = "paused"
          /\ contacts[frames[1].due[k]].follow_up_status = "Paused"
          /\ contacts[frames[1].due[k]].follow_up_count = 1
          /\ OutboundRows(messages, frames[1].due[k]) # {}
          /\ Audited(audit_log, "follow_up_paused", frames[1].due[k]) # {}

\* The outbound rows of a contact that await the reviewer or the sender.
PendingRows(ms, id) ==
    { i \in OutboundRows(ms, id) : ms[i].status \in { "Draft Ready", "Approved" } }

SentRows(ms, id) ==
    SelectIdx(ms, { i \in OutboundRows(ms, id) :
                      ms[i].status = "Sent" /\ ms[i].edit_distance # -1 })

\* The rows a cycle created.
NewRows == (DOMAIN messages') \ (DOMAIN messages)

\* C25: a follow-up is created Approved when the contact has at least
\* auto_approve_threshold sent outbound messages with an edit distance and
\* the auto_approve_threshold most recently sent of them all have distance
\* 0, and Draft Ready otherwise.
C25_ApprovedIffRecentUnedited ==
    [][ IsCycle =>
          \A i \in NewRows :
             LET sent == SentRows(messages, messages'[i].contact_id)
                 n == CadenceConfig.auto_approve_threshold
                 unedited ==
                     /\ Len(sent) >= n
                     /\ \A k \in (Len(sent) - n + 1)..Len(sent) :
                           messages[sent[k]].edit_distance = 0
             IN messages'[i].status =
                    IF unedited THEN "Approved" ELSE "Draft Ready" ]_vars

\* C26: when the second phase creates a follow-up for a contact whose count
\* is total_followups - 1, the contact's row gets status Exhausted, stage
\* Closed Lost and count total_followups together; for a smaller count the
\* status is Active afterwards, the count is one more and the stage is as
\* it was; and when a call made for the contact raises after the message
\* was created, none of the three is written.
C26_ExhaustionInOneUpdate ==
    [][ IsCycle =>
          \A i \in NewRows :
             LET id == messages'[i].contact_id
                 c == contacts[id]
                 d == contacts'[id]
             IN IF OutcomeOf(id) = "raised"
                THEN /\ d.follow_up_count = c.follow_up_count
                     /\ d.follow_up_status = "Active"
                     /\ d.conversation_stage = c.conversation_stage
                ELSE IF c.follow_up_count = FollowConfig.total_followups - 1
                THEN /\ d.follow_up_status = "Exhausted"
                     /\ d.conversation_stage = "Closed Lost"
                     /\ d.follow_up_count = FollowConfig.total_followups
                ELSE /\ d.follow_up_status = "Active"
                     /\ d.conversation_stage = c.conversation_stage
                     /\ d.follow_up_count = c.follow_up_count + 1 ]_vars

\* A cycle created the last follow-up of a contact and closed its cadence.
C26_Witness ==
    /\ IsCycleRecord(frames)
    /\ frames[1].day = today
    /\ \E k \in DOMAIN frames[1].due :
          LET id == frames[1].due[k]
          IN /\ frames[1].outcomes[k] \in { "drafted", "auto_approved" }
             /\ contacts[id].follow_up_status = "Exhausted"
             /\ contacts[id].conversation_stage = "Closed Lost"
             /\ contacts[id].follow_up_count = FollowConfig.total_followups
             /\ Audited(audit_log, "follow_up_exhausted", id) # {}
             /\ \E i \in OutboundRows(messages, id) :
                   messages[i].follow_up_number
                      = FollowConfig.total_followups

\* C27: a follow-up cycle creates no message for a contact whose cadence
\* status is Exhausted and leaves its cadence columns as they were; and in
\* every state no contact's follow-up count exceeds total_followups and
\* every Active contact's count is below it.
C27_ExhaustedIsTerminal ==
    [][ /\ IsCycle =>
             \A id \in DOMAIN contacts :
                contacts[id].follow_up_status = "Exhausted"
                => /\ OutboundRows(messages', id) = OutboundRows(messages, id)
                   /\ Cadence(contacts'[id]) = Cadence(contacts[id])
        /\ \A id \in DOMAIN contacts' :
              /\ contacts'[id].follow_up_count <= FollowConfig.total_followups
              /\ contacts'[id].follow_up_status = "Active"
                 => contacts'[id].follow_up_count
                       < FollowConfig.total_followups ]_vars

\* A cycle ran on a day on which the next-due date of an exhausted contact
\* had come, after its last follow-up was sent, and left it alone.
C27_Witness ==
    /\ IsCycleRecord(frames)
    /\ frames[1].day = today
    /\ ~frames[1].raised
    /\ \E id \in DOMAIN contacts :
          /\ contacts[id].follow_up_status = "Exhausted"
          /\ contacts[id].next_follow_up_date <= today
          /\ contacts[id].follow_up_count = FollowConfig.total_followups
          /\ PendingRows(messages, id) = {}
          /\ \A k \in DOMAIN frames[1].due : frames[1].due[k] # id

\* The terminal conversation stages.
TerminalStages == { "Closed Won", "Closed Lost" }

\* C28: no step of the pipeline, of the outbound loop or of a follow-up
\* cycle changes the conversation stage of a contact whose stage is Closed
\* Won or Closed Lost.
C28_TerminalStageIsKept ==
    [][ \A id \in DOMAIN contacts :
           contacts[id].conversation_stage \in TerminalStages
           => contacts'[id].conversation_stage
                 = contacts[id].conversation_stage ]_vars

\* The number of positions of a list of outcomes at which a call raised.
Raises(outcomes) ==
    Cardinality({ k \in DOMAIN outcomes : outcomes[k] = "raised" })

\* C29: a cycle returns normally whatever call raises; it handles every
\* contact of the list of stale contacts and every contact of the list of
\* due contacts, and counts each contact for which a call raised as
\* skipped.
C29_RaiseSkipsOneContact ==
    [][ IsCycle =>
          /\ ~Cycle.raised
          /\ Len(Cycle.activation) = Len(Cycle.stale)
          /\ Len(Cycle.outcomes) = Len(Cycle.due)
          /\ Cycle.stats.skipped
                >= Raises(Cycle.activation) + Raises(Cycle.outcomes) ]_vars

\* The channel of the follow-up a cycle created for a contact ("" when it
\* created none): the source of the new row.
ChannelUsed(id) ==
    LET new == { i \in NewRows : messages'[i].contact_id = id }
    IN IF new = {} THEN ""
       ELSE IF messages'[CHOOSE i \in new : TRUE].source = LinkedIn
       THEN "LinkedIn" ELSE "Email"

\* C30: for a due contact that has not replied and has nothing pending,
\* the follow-up goes by LinkedIn when the count is below
\* linkedin_followups and a profile URL is on file, by Email when it is
\* below and only an email is on file; from linkedin_followups on by Email
\* when an email is on file, else by LinkedIn when a URL is; and exactly
\* the contact with neither is skipped: no message, count unchanged.
C30_ChannelByCountWithFallback ==
    [][ IsCycle =>
          \A id \in DOMAIN contacts :
             LET c == contacts[id]
                 early == c.follow_up_count < CadenceConfig.linkedin_followups
                 used == ChannelUsed(id)
             IN /\ (early /\ c.linkedin_url # "") => used = "LinkedIn"
                /\ (early /\ c.linkedin_url = "" /\ c.email # "")
                   => used = "Email"
                /\ (~early /\ c.email # "") => used = "Email"
                /\ (~early /\ c.email = "" /\ c.linkedin_url # "")
                   => used = "LinkedIn"
                /\ used # "" => contacts'[id].follow_up_channel = used
                /\ (c.email = "" /\ c.linkedin_url = "")
                   <=> OutcomeOf(id) = "no_channel"
                /\ OutcomeOf(id) = "no_channel"
                   => /\ used = ""
                      /\ contacts'[id] = c
                      /\ Cycle.stats.skipped = 1 ]_vars

\* A cycle skipped a due contact with neither address, and created nothing.
C30_Witness ==
    /\ IsCycleRecord(frames)
    /\ frames[1].due = << 1 >>
    /\ frames[1].outcomes = << "no_channel" >>
    /\ contacts[1].email = ""
    /\ contacts[1].linkedin_url = ""
    /\ contacts[1].follow_up_count = Len(messages)
    /\ contacts[1].follow_up_status = "Active"

-----------------------------------------------------------------------------
(* Properties of the self-learning cycle (SpecLearn).                      *)

\* The step is an invocation of run_learning_cycle; LearnCycle is its
\* record.
IsLearn == IsLearnRecord(frames') /\ frames' # frames

LearnCycle == frames'[1]

\* The ids of the active rules.
ActiveRules(ll) == { i \in DOMAIN ll : ll[i].active }

\* The rows a cycle inserted.
NewRules == (DOMAIN learning_log') \ (DOMAIN learning_log)

\* C31: after a learning cycle that returns without skipping, at most
\* max_active_rules rules are active; when the rules active before plus
\* the inserted ones exceed the cap, exactly max_active_rules stay active
\* and no deactivated rule was created later than a rule that stays
\* active; otherwise none is deactivated.  In every step the stored rows
\* stay in the store and an inactive rule stays inactive.
C31_OldestRulesAreEvicted ==
    [][ /\ (IsLearn /\ LearnCycle.skipped_reason = "") =>
              LET candidates == ActiveRules(learning_log) \cup NewRules
                  after == ActiveRules(learning_log')
                  evicted == candidates \ after
              IN /\ after \subseteq candidates
                 /\ Cardinality(after) <= LearnConfig.max_active_rules
                 /\ Cardinality(candidates) > LearnConfig.max_active_rules
                    => Cardinality(after) = LearnConfig.max_active_rules
                 /\ Cardinality(candidates) <= LearnConfig.max_active_rules
                    => evicted = {}
                 /\ \A e \in evicted, a \in after :
                       learning_log'[e].created_at
                          <= learning_log'[a].created_at
        /\ Len(learning_log') >= Len(learning_log)
        /\ \A i \in DOMAIN learning_log :
              /\ learning_log'[i].rule_text = learning_log[i].rule_text
              /\ learning_log'[i].confidence = learning_log[i].confidence
              /\ learning_log'[i].created_at = learning_log[i].created_at
              /\ learning_log'[i].active => learning_log[i].active ]_vars

\* A cycle inserted rules over the cap and deactivated older ones: the cap
\* is met exactly and a rule created on an earlier day is inactive.
C31_Witness ==
    /\ IsLearnRecord(frames)
    /\ frames[1].skipped_reason = ""
    /\ frames[1].result.new_rules > 0
    /\ Cardinality(ActiveRules(learning_log)) = LearnConfig.max_active_rules
    /\ \E e \in DOMAIN learning_log :
          /\ ~learning_log[e].active
          /\ learning_log[e].deactivated_at = frames[1].day
          /\ learning_log[e].created_at < frames[1].day

\* C32: a learning cycle inserts rules only when it found at least
\* min_messages edited pairs, and only rules with confidence above 0.7
\* (70 hundredths), as many as it reports; when it found fewer pairs it
\* leaves the rule store as it was and returns a skipped_reason.
C32_RulesNeedDataAndConfidence ==
    [][ IsLearn =>
          LET found == Len(_fetch_edited_messages(messages, today,
                                                  LearnConfig.lookback_days))
              enough == found >= LearnConfig.min_messages_for_analysis
          IN /\ NewRules # {} => enough
             /\ \A i \in NewRules :
                   /\ learning_log'[i].confidence > 70
                   /\ learning_log'[i].created_at = today
             /\ ~LearnCycle.raised
                => LearnCycle.result.new_rules = Cardinality(NewRules)
             /\ ~enough => learning_log' = learning_log
             /\ (~enough /\ ~LearnCycle.raised)
                => /\ LearnCycle.skipped_reason = "insufficient_data"
                   /\ LearnCycle.result.new_rules = 0
             /\ (enough /\ ~LearnCycle.raised)
                => LearnCycle.skipped_reason = "" ]_vars

\* A cycle that found enough edited pairs stored one rule of two
\* candidates, and the cycle of a later day, its window empty, skipped.
C32_Witness ==
    /\ IsLearnRecord(frames)
    /\ frames[1].skipped_reason = "insufficient_data"
    /\ Len(learning_log) = 1
    /\ learning_log[1].confidence = 71
    /\ learning_log[1].active
    /\ learning_log[1].created_at < frames[1].day
    /\ Len(messages) >= LearnConfig.min_messages_for_analysis

-----------------------------------------------------------------------------
(* Properties of the idempotency ledger (SpecLedger).                      *)

\* The ledger row of a key, when there is exactly one.
LedgerRow(pm, key) == CHOOSE r \in LedgerRows(pm, key[1], key[2]) : TRUE

\* C33: after every mark_message_processed or mark_message_failed call the
\* ledger holds exactly one row for the call's key and the rows of other
\* keys as they were; on an existing key mark_message_processed sets the
\* status and keeps attempts, mark_message_failed sets status failed, adds
\* one to attempts and stores the new error; and a stored CRM id is
\* replaced only by an id the call supplies.
C33_LedgerUpserts ==
    [][ LET call == frames'[1]
            key == call.key
            old == LedgerRows(processed_messages, key[1], key[2])
            new == LedgerRows(processed_messages', key[1], key[2])
            o == LedgerRow(processed_messages, key)
            n == LedgerRow(processed_messages', key)
        IN /\ Cardinality(new) = 1
           /\ processed_messages' \ new = processed_messages \ old
           /\ n.status = call.status
           /\ old = {} =>
                 /\ n.attempts = 1
                 /\ n.airtable_message_id = call.message_id
                 /\ n.airtable_contact_id = call.contact_id
           /\ old # {} =>
                 /\ n.airtable_message_id =
                       IF call.message_id # NoId THEN call.message_id
                       ELSE o.airtable_message_id
                 /\ n.airtable_contact_id =
                       IF call.contact_id # NoId THEN call.contact_id
                       ELSE o.airtable_contact_id
                 /\ call.op = "mark_message_processed"
                    => n.attempts = o.attempts /\ n.error = o.error
                 /\ call.op = "mark_message_failed"
                    => n.attempts = o.attempts + 1
           /\ call.op = "mark_message_failed" => n.error = call.error ]_vars

\* A key that failed twice, with different errors, was then marked
\* processed with its CRM ids, and marked again with none: one row, three
\* attempts, the ids still there.
C33_Witness ==
    /\ frames # << >>
    /\ frames[1].op = "mark_message_processed"
    /\ frames[1].message_id = NoId
    /\ frames[1].contact_id = NoId
    /\ \E r \in processed_messages :
          /\ << r.source, r.source_message_id >> = frames[1].key
          /\ r.status = "skipped"
          /\ r.attempts = 3
          /\ r.error = "e2"
          /\ r.airtable_message_id = 2
          /\ r.airtable_contact_id = 1
    /\ Cardinality(processed_messages) = Cardinality(LedgerKeys)

-----------------------------------------------------------------------------
(* Properties of the circuit breaker (SpecBreaker).                        *)

\* The step is a run of run_inbound_cycle.
IsInbound == frames' # frames /\ "polled" \in DOMAIN frames'[1]

\* The breaker of a source is open at a time: is_open would answer True.
BreakerOpen(cb, source, now) ==
    /\ source \in DOMAIN cb._open_until
    /\ now < cb._open_until[source]

\* What the breaker holds about a source.
BreakerState(cb, source) ==
    << DictGet(cb._failures, source, 0), DictGet(cb._open_until, source, -1) >>

\* C34: for each source on its own, a run of run_inbound_cycle polls the
\* source exactly when its breaker is not open; an open breaker is left as
\* it is; a success leaves the failure count at zero and the breaker
\* closed; a failure makes the count the number of failures in a row since
\* the last success or expired cooldown, and the breaker is open after it
\* exactly when that number has reached the threshold, until the cooldown
\* after the failure has passed.
C34_BreakerPerSource ==
    [][ IsInbound =>
          \A source \in { PollSources[1], PollSources[2] } :
             LET c == frames'[1]
                 was_open == BreakerOpen(circuit_breaker, source, monotonic)
                 open == BreakerOpen(circuit_breaker', source, monotonic)
                 failures == DictGet(circuit_breaker'._failures, source, 0)
             IN /\ c.polled[source] <=> ~was_open
                /\ was_open
                   => BreakerState(circuit_breaker', source)
                         = BreakerState(circuit_breaker, source)
                /\ (~was_open /\ c.plan[source] = "ok")
                   => /\ failures = 0
                      /\ source \notin DOMAIN circuit_breaker'._open_until
                /\ (~was_open /\ c.plan[source] = "raise")
                   => /\ failures = c.streak[source]
                      /\ open <=> c.streak[source]
                                    >= BreakerConfig.circuit_breaker_threshold
                      /\ open
                         => circuit_breaker'._open_until[source]
                              = monotonic
                                + BreakerConfig.circuit_breaker_cooldown_seconds
          ]_vars

\* A run found the Gmail breaker open after two failures in a row and did
\* not poll Gmail, while LinkedIn, with one failure of its own, was polled
\* and failed again.
C34_Witness ==
    /\ frames # << >>
    /\ "polled" \in DOMAIN frames[1]
    /\ ~frames[1].polled.gmail
    /\ frames[1].polled.linkedin
    /\ frames[1].streak.linkedin = BreakerConfig.circuit_breaker_threshold
    /\ frames[1].at > 0
    /\ BreakerOpen(circuit_breaker, "gmail", monotonic)
    /\ BreakerOpen(circuit_breaker, "linkedin", monotonic)
    /\ circuit_breaker._open_until.gmail < circuit_breaker._open_until.linkedin

-----------------------------------------------------------------------------
(* Properties of compute_edit_distance (SpecEdit); distances are in        *)
(* thousandths.                                                            *)

\* C35: the distance returned is 0 for two empty texts, 1000 (1.0) when
\* exactly one text is empty, 0 for two identical texts, and between 0 and
\* 1000 for every pair.
C35_EditDistanceBoundaries ==
    (frames # << >> /\ "distance" \in DOMAIN frames[1]) =>
       LET original == frames[1].original
           edited == frames[1].edited
           distance == frames[1].distance
       IN /\ (original = NoText /\ edited = NoText) => distance = 0
          /\ (original = NoText) # (edited = NoText) => distance = 1000
          /\ original = edited => distance = 0
          /\ distance \in 0..1000

\* The distance of a text of full length from itself was computed.
C35_Witness ==
    /\ frames # << >>
    /\ "distance" \in DOMAIN frames[1]
    /\ frames[1].original = frames[1].edited
    /\ Len(frames[1].original) = MaxTextLen
    /\ frames[1].original[1] # frames[1].original[2]
    /\ frames[1].distance = 0

-----------------------------------------------------------------------------
(* A send followed by failing bookkeeping (SpecOutbound).                  *)

\* C36: a message for which sender.send returned in this invocation is
\* Sent when the invocation returns, and a message that is Sent stays Sent.
C36_SentIsNeverFailed ==
    [][ IsRun =>
          \A id \in DOMAIN messages :
              /\ SendsOf(sends', id) # SendsOf(sends, id) =>
                    messages'[id].status = "Sent"
              /\ messages[id].status = "Sent" =>
                    messages'[id].status = "Sent" ]_vars

-----------------------------------------------------------------------------
(* The ledger entry and the return value of process_message (Spec).        *)

\* C37: a process_message call that was not skipped as a duplicate returns
\* a message id exactly when the ledger holds the message as processed at
\* the end of the call, and an exception raised after mark_message_processed
\* (in the audit logging) leaves the entry processed.
C37_ProcessedEntryIsKept ==
    [][ (IsCall /\ last'.prior = "none") =>
          LET status == LedgerStatus(processed_messages', last'.message)
          IN /\ (last'.result # NoId) <=> (status = "processed")
             /\ last'.raised = "audit_received" => status = "processed" ]_vars

-----------------------------------------------------------------------------
(* Follow-up numbers and the Follow-Up Count (SpecFollow).                 *)

\* The cadence messages of a contact: the rows linked to it that carry a
\* follow-up number.
CadenceMessages(ms, id) ==
    { i \in DOMAIN ms : ms[i].contact_id = id /\ ms[i].follow_up_number > 0 }

\* C38: the follow-up numbers of a contact's cadence messages are pairwise
\* distinct, and the contact's Follow-Up Count is the number of them.
C38_FollowUpNumbersAreDistinct ==
    \A id \in DOMAIN contacts :
        LET cadence == CadenceMessages(messages, id)
        IN /\ \A i, j \in cadence :
                  messages[i].follow_up_number = messages[j].follow_up_number
                     => i = j
           /\ contacts[id].follow_up_count = Cardinality(cadence)

-----------------------------------------------------------------------------
(* What counts as a reply for the follow-up engine (SpecFollow).           *)

\* C39: in a cycle that raises nothing, a contact whose inbound messages
\* all preceded its last outbound send (received on an earlier day, or
\* answered by a send, possibly on the day they arrived) is not treated as
\* having replied: if stale it is activated, and it is not Paused.
C39_EarlierInboundIsNoReply ==
    [][ (IsCycle /\ ~Cycle.raised) =>
          \A id \in DOMAIN contacts :
             NoInboundSince(messages, contacts, id) =>
                /\ IsStale(contacts[id], today, FollowConfig)
                      => contacts'[id].follow_up_status # ""
                /\ contacts[id].follow_up_status \in { "", "Active" }
                      => contacts'[id].follow_up_status # "Paused" ]_vars

-----------------------------------------------------------------------------
(* A paused cadence (SpecFollow).                                          *)

\* The row ids a list of row ids holds.
Listed(seq) == { seq[k] : k \in DOMAIN seq }

\* C40: a follow-up cycle, whether or not a call of it raises, selects no
\* contact whose Follow-Up Status is Paused in either phase, creates no
\* outbound message for it and leaves its cadence fields as they were.
C40_PausedIsNotSelected ==
    [][ IsCycle =>
          \A id \in DOMAIN contacts :
             contacts[id].follow_up_status = "Paused"
             => /\ id \notin Listed(Cycle.stale) \cup Listed(Cycle.due)
                /\ OutboundRows(messages', id) = OutboundRows(messages, id)
                /\ Cadence(contacts'[id]) = Cadence(contacts[id]) ]_vars

\* A cycle ran on a day on which a contact paused by an earlier cycle was
\* past its next-due date and met every other criterion of a stale lead,
\* and left it alone.
C40_Witness ==
    /\ IsCycleRecord(frames)
    /\ frames[1].day = today
    /\ \E id \in DOMAIN contacts :
          /\ contacts[id].follow_up_status = "Paused"
          /\ id \notin Listed(frames[1].due)
          /\ contacts[id].next_follow_up_date # 0
          /\ contacts[id].next_follow_up_date <= today
          /\ contacts[id].conversation_stage
                \in { "Engaging", "Qualifying", "Follow Up" }
          /\ contacts[id].lead_category # "Not a Lead"
          /\ contacts[id].last_outbound_at # 0
          /\ contacts[id].last_outbound_at
                < today - FollowConfig.days_before_activation


=============================================================================
